---- MODULE Spec2Model ----
(***************************************************************************)
(* RevenuePulse model (src/unnamed/part_006, class RevenuePulseModel):     *)
(* demand forecast, pricing recommendation, what-if simulation and KPI     *)
(* aggregation over the RevenueData / MarketData / Hotel collections.      *)
(*                                                                         *)
(* Numbers are exact rationals <<numerator, denominator>>; a Date is a     *)
(* count of ticks (TicksPerDay per calendar day) since 2024-01-01 00:00    *)
(* local time.  Each invocation of an async operation is a slot whose pc   *)
(* names the await it is suspended at; the code between two awaits runs    *)
(* as one action, as it does on the single-threaded event loop.            *)
(***************************************************************************)
EXTENDS Integers, Sequences, FiniteSets, TLC

(***************************************************************************)
(* Bounds of the model                                                     *)
(***************************************************************************)
TicksPerDay == 2
MaxDaysAhead == 3
MaxRevenue == 2
MaxMarket == 1

(***************************************************************************)
(* Exact rational arithmetic for JavaScript numbers                        *)
(***************************************************************************)
Abs(n) == IF n < 0 THEN -n ELSE n

RECURSIVE GCD(_, _)
GCD(a, b) == IF b = 0 THEN a ELSE GCD(b, a % b)

\* n/d in lowest terms; a zero denominator gives the non-finite values of
\* IEEE division: <<1, 0>> = Infinity, <<-1, 0>> = -Infinity, <<0, 0>> = NaN
Rat(n, d) ==
  IF d = 0 THEN <<(IF n > 0 THEN 1 ELSE IF n < 0 THEN -1 ELSE 0), 0>>
  ELSE LET s == IF d < 0 THEN -1 ELSE 1
           g == GCD(Abs(n), Abs(d))
       IN  <<(s * n) \div g, (s * d) \div g>>
IsFinite(a) == a[2] # 0
NaN == <<0, 0>>
IsNaN(a) == a = NaN

Num(n) == <<n, 1>>
\* sums and products are reduced before they are multiplied out, so that the
\* intermediate integers stay small
RAdd(a, b) ==
  IF IsNaN(a) \/ IsNaN(b) THEN NaN
  ELSE IF a[2] = 0 /\ b[2] = 0 THEN (IF a[1] = b[1] THEN a ELSE NaN)
  ELSE IF a[2] = 0 THEN a
  ELSE IF b[2] = 0 THEN b
  ELSE LET g == GCD(a[2], b[2])
       IN  Rat(a[1] * (b[2] \div g) + b[1] * (a[2] \div g), (a[2] \div g) * b[2])
RNeg(a) == <<-a[1], a[2]>>
RSub(a, b) == RAdd(a, RNeg(b))
RMul(a, b) ==
  IF a[2] = 0 \/ b[2] = 0 \/ a[1] = 0 \/ b[1] = 0 THEN Rat(a[1] * b[1], a[2] * b[2])
  ELSE LET g1 == GCD(Abs(a[1]), b[2])
           g2 == GCD(Abs(b[1]), a[2])
       IN  Rat((a[1] \div g1) * (b[1] \div g2), (a[2] \div g2) * (b[2] \div g1))
RDiv(a, b) == RMul(a, Rat(b[2], b[1]))
\* every comparison with NaN is false
RLe(a, b) ==
  IF IsNaN(a) \/ IsNaN(b) THEN FALSE
  ELSE IF a[2] = 0 /\ b[2] = 0 THEN a[1] <= b[1]
  ELSE IF a[2] = 0 \/ b[2] = 0 THEN a[1] * b[2] <= b[1] * a[2]
  ELSE LET g == GCD(a[2], b[2]) IN a[1] * (b[2] \div g) <= b[1] * (a[2] \div g)
RLt(a, b) == ~IsNaN(a) /\ ~IsNaN(b) /\ ~RLe(b, a)
RGt(a, b) == RLt(b, a)
\* Math.min and Math.max return NaN as soon as one argument is NaN
MathMin(a, b) == IF IsNaN(a) \/ IsNaN(b) THEN NaN ELSE IF RLe(a, b) THEN a ELSE b
MathMax(a, b) == IF IsNaN(a) \/ IsNaN(b) THEN NaN ELSE IF RLe(a, b) THEN b ELSE a
\* Math.round: the nearest integer, halves rounded towards +Infinity
MathRound(a) == (2 * a[1] + a[2]) \div (2 * a[2])

\* A stored numeric field is a number <<v>> or null <<>>; `x || 0`
Null == <<>>
Val(v) == <<v>>
OrZero(x) == IF x = Null \/ x[1] = 0 THEN 0 ELSE x[1]

\* a property that the object does not have reads as undefined, and undefined is NaN
\* in arithmetic and in comparisons
Undefined == <<>>
ToNumber(x) == IF x = Undefined THEN NaN ELSE x

(***************************************************************************)
(* Calendar: Date.getDate / getMonth / getDay / setDate / toDateString     *)
(***************************************************************************)
IsLeap(y) == (y % 4 = 0 /\ y % 100 # 0) \/ y % 400 = 0
DaysInMonth(y, m) ==
  IF m = 1 THEN (IF IsLeap(y) THEN 29 ELSE 28)
  ELSE IF m \in {3, 5, 8, 10} THEN 30 ELSE 31

RECURSIVE Civil(_, _, _)
\* the calendar date that lies `rem` days after the first of month m (0-11) of year y
Civil(y, m, rem) ==
  IF rem < 0 THEN
    (IF m = 0 THEN Civil(y - 1, 11, rem + 31)
     ELSE Civil(y, m - 1, rem + DaysInMonth(y, m - 1)))
  ELSE IF rem >= DaysInMonth(y, m) THEN
    (IF m = 11 THEN Civil(y + 1, 0, rem - 31)
     ELSE Civil(y, m + 1, rem - DaysInMonth(y, m)))
  ELSE [year |-> y, month |-> m, date |-> rem + 1]

\* day number of a timestamp (floor, also before the epoch)
DayOf(t) == IF t >= 0 THEN t \div TicksPerDay
            ELSE -((-t + TicksPerDay - 1) \div TicksPerDay)
TimeOf(t) == t - DayOf(t) * TicksPerDay
CivilOf(t) == Civil(2024, 0, DayOf(t))
GetDate(t) == CivilOf(t).date
GetMonth(t) == CivilOf(t).month
\* 2024-01-01 is a Monday; 0 = Sunday ... 6 = Saturday
GetDay(t) == ((DayOf(t) % 7) + 8) % 7
\* date.setDate(v): day v of the date's month, overflow rolling into other months
SetDate(t, v) == (DayOf(t) - (GetDate(t) - 1) + (v - 1)) * TicksPerDay + TimeOf(t)
ToDateString(t) == CivilOf(t)

RECURSIVE DaysBeforeMonth(_, _)
DaysBeforeMonth(y, m) == IF m = 0 THEN 0 ELSE DaysBeforeMonth(y, m - 1) + DaysInMonth(y, m - 1)
\* new Date(2024, m, d, 0, 0): midnight of day d of month m (0-11) of 2024
Date2024(m, d) == (DaysBeforeMonth(2024, m) + d - 1) * TicksPerDay
Noon == TicksPerDay \div 2

(***************************************************************************)
(* Collections and the invocations in flight                               *)
(***************************************************************************)
VARIABLES
  hotelStore,     \* Hotel collection: the ids that Hotel.findById locates
  revenueStore,   \* RevenueData collection, in insertion order
  marketStore,    \* MarketData collection, in insertion order
  slot,           \* the invocations of RevenuePulseModel operations
  userStore,      \* User collection: the documents by _id
  processEnv,     \* process.env: JWT_SECRET and NODE_ENV ("" when not set)
  now,            \* the clock that jwt.sign and jwt.verify read
  authToken,      \* the token that the client has kept from its last response
  login,          \* the POST /api/auth/login request in flight
  authReq         \* the GET /api/auth/profile request in flight

authVars == <<userStore, processEnv, now, authToken, login, authReq>>
vars == <<hotelStore, revenueStore, marketStore, slot, authVars>>

Hotels == {"h1", "h2"}
Impacts == {"high", "medium", "low"}

(***************************************************************************)
(* getRevenueData / getMarketData: find({hotelId, date: {$gte, $lte}})     *)
(* .sort({date: 1}); documents of equal date keep their insertion order    *)
(***************************************************************************)
RECURSIVE InsertByDate(_, _)
InsertByDate(sorted, doc) ==
  IF sorted = <<>> THEN <<doc>>
  ELSE IF sorted[Len(sorted)].date <= doc.date THEN Append(sorted, doc)
  ELSE Append(InsertByDate(SubSeq(sorted, 1, Len(sorted) - 1), doc), sorted[Len(sorted)])

RECURSIVE SortByDate(_)
SortByDate(docs) ==
  IF docs = <<>> THEN <<>>
  ELSE InsertByDate(SortByDate(SubSeq(docs, 1, Len(docs) - 1)), docs[Len(docs)])

\* variant: the query without its hotelId condition
FindByHotelAndRange_AnyHotel(collection, hotelId, startDate, endDate) ==
  SortByDate(SelectSeq(collection,
    LAMBDA doc : doc.date >= startDate /\ doc.date <= endDate))

FindByHotelAndRange(collection, hotelId, startDate, endDate) ==
  SortByDate(SelectSeq(collection,
    LAMBDA doc : doc.hotelId = hotelId /\ doc.date >= startDate /\ doc.date <= endDate))

getRevenueData(hotelId, startDate, endDate) ==
  FindByHotelAndRange(revenueStore, hotelId, startDate, endDate)

getMarketData(hotelId, startDate, endDate) ==
  FindByHotelAndRange(marketStore, hotelId, startDate, endDate)

(***************************************************************************)
(* predictDemand: the computation that follows the two fetches             *)
(***************************************************************************)
RECURSIVE SumField(_, _)
\* forEach / reduce over the fetched documents of `data.<field> || 0`
SumField(docs, field) ==
  IF docs = <<>> THEN 0
  ELSE SumField(SubSeq(docs, 1, Len(docs) - 1), field) + OrZero(docs[Len(docs)][field])

LookbackStart(targetDate) == SetDate(targetDate, GetDate(targetDate) - 90)

AvgOccupancy(revenueData) ==
  IF Len(revenueData) > 0
  THEN Rat(SumField(revenueData, "occupancyRate"), Len(revenueData))
  ELSE Num(0)

BaseADR(revenueData) ==
  IF Len(revenueData) > 0
  THEN Rat(SumField(revenueData, "adr"), Len(revenueData))
  ELSE Num(100)

ForecastDate(forecastStartDate, i) ==
  SetDate(forecastStartDate, GetDate(forecastStartDate) + i)

\* marketData.find(...): the first fetched document of the forecast day, <<>> if none
RelevantMarketData(marketData, forecastDate) ==
  LET hits == {k \in 1..Len(marketData) :
                 ToDateString(marketData[k].date) = ToDateString(forecastDate)}
  IN  IF hits = {} THEN <<>>
      ELSE <<marketData[CHOOSE k \in hits : \A j \in hits : k <= j]>>

\* eventsImpact is declared `const` and initialised to 1.0; the first event
\* whose expectedImpact is high, medium or low reaches `eventsImpact += ...`,
\* an assignment to a constant, which throws TypeError
EventsImpact(relevantMarketData) ==
  LET events == IF relevantMarketData = <<>> THEN <<>> ELSE relevantMarketData[1].events
  IN  IF Len(events) > 0 /\ \E k \in 1..Len(events) : events[k] \in Impacts
      THEN [threw |-> TRUE, value |-> Num(1)]
      ELSE [threw |-> FALSE, value |-> Num(1)]

\* variant: only Saturday and Sunday count as weekend
WeekendFactor_SatSun(forecastDate) ==
  IF GetDay(forecastDate) \in {0, 6} THEN Rat(12, 10) ELSE Num(1)

WeekendFactor(forecastDate) ==
  IF GetDay(forecastDate) \in {0, 5, 6} THEN Rat(12, 10) ELSE Num(1)

\* variant: summer starts in July
SeasonalityFactor_SummerFromJuly(forecastDate) ==
  LET month == GetMonth(forecastDate)
  IN  IF month >= 6 /\ month <= 8 THEN Rat(13, 10)
      ELSE IF month >= 11 \/ month <= 1 THEN Rat(12, 10)
      ELSE IF month >= 2 /\ month <= 4 THEN Rat(11, 10)
      ELSE Rat(9, 10)

SeasonalityFactor(forecastDate) ==
  LET month == GetMonth(forecastDate)
  IN  IF month >= 5 /\ month <= 8 THEN Rat(13, 10)
      ELSE IF month >= 11 \/ month <= 1 THEN Rat(12, 10)
      ELSE IF month >= 2 /\ month <= 4 THEN Rat(11, 10)
      ELSE Rat(9, 10)

\* variant: the product is stored without the Math.min / Math.max clamp
PredictedOccupancy_Unclamped(avgOccupancy, weekendFactor, seasonalityFactor, eventsImpact) ==
  RMul(RMul(RMul(avgOccupancy, weekendFactor), seasonalityFactor), eventsImpact)

PredictedOccupancy(avgOccupancy, weekendFactor, seasonalityFactor, eventsImpact) ==
  MathMin(Num(100),
          MathMax(Num(0), RMul(RMul(RMul(avgOccupancy, weekendFactor),
                                    seasonalityFactor), eventsImpact)))

\* variant: the thresholds belong to the upper tier
OccupancyADRFactor_Inclusive(predictedOccupancy) ==
  IF RLe(Num(80), predictedOccupancy) THEN Rat(13, 10)
  ELSE IF RLe(Num(60), predictedOccupancy) THEN Rat(11, 10)
  ELSE IF RLe(Num(40), predictedOccupancy) THEN Rat(9, 10)
  ELSE Rat(8, 10)

OccupancyADRFactor(predictedOccupancy) ==
  IF RGt(predictedOccupancy, Num(80)) THEN Rat(13, 10)
  ELSE IF RGt(predictedOccupancy, Num(60)) THEN Rat(11, 10)
  ELSE IF RGt(predictedOccupancy, Num(40)) THEN Rat(9, 10)
  ELSE Rat(8, 10)

PredictedADR(baseADR, occupancyADRFactor, seasonalityFactor) ==
  RMul(RMul(baseADR, occupancyADRFactor), seasonalityFactor)

PredictedRevPAR(predictedOccupancy, predictedADR) ==
  RDiv(RMul(predictedOccupancy, predictedADR), Num(100))

\* variant: RevPAR is computed from the product before it is clamped
Prediction_RevPARFromUnclamped(revenueData, marketData, forecastStartDate, i) ==
  LET forecastDate == ForecastDate(forecastStartDate, i)
      events == EventsImpact(RelevantMarketData(marketData, forecastDate))
      weekendFactor == WeekendFactor(forecastDate)
      seasonalityFactor == SeasonalityFactor(forecastDate)
      rawOccupancy == RMul(RMul(RMul(AvgOccupancy(revenueData), weekendFactor),
                                seasonalityFactor), events.value)
      predictedOccupancy == MathMin(Num(100), MathMax(Num(0), rawOccupancy))
      predictedADR == PredictedADR(BaseADR(revenueData),
                                   OccupancyADRFactor(predictedOccupancy), seasonalityFactor)
  IN  [threw |-> events.threw,
       prediction |->
         [date |-> forecastDate,
          predictedOccupancy |-> predictedOccupancy,
          predictedADR |-> predictedADR,
          predictedRevPAR |-> PredictedRevPAR(rawOccupancy, predictedADR),
          factors |-> [weekendFactor |-> weekendFactor,
                       seasonalityFactor |-> seasonalityFactor,
                       eventsImpact |-> events.value]]]

\* one pass of the for loop body: the prediction pushed for day i, or a throw
Prediction(revenueData, marketData, forecastStartDate, i) ==
  LET forecastDate == ForecastDate(forecastStartDate, i)
      events == EventsImpact(RelevantMarketData(marketData, forecastDate))
      weekendFactor == WeekendFactor(forecastDate)
      seasonalityFactor == SeasonalityFactor(forecastDate)
      predictedOccupancy == PredictedOccupancy(AvgOccupancy(revenueData), weekendFactor,
                                               seasonalityFactor, events.value)
      predictedADR == PredictedADR(BaseADR(revenueData),
                                   OccupancyADRFactor(predictedOccupancy), seasonalityFactor)
  IN  [threw |-> events.threw,
       prediction |->
         [date |-> forecastDate,
          predictedOccupancy |-> predictedOccupancy,
          predictedADR |-> predictedADR,
          predictedRevPAR |-> PredictedRevPAR(predictedOccupancy, predictedADR),
          factors |-> [weekendFactor |-> weekendFactor,
                       seasonalityFactor |-> seasonalityFactor,
                       eventsImpact |-> events.value]]]


\* for (let i = 0; i < daysAhead; i++): the list built, or the first throw
PredictDemandBody(hotelId, targetDate, daysAhead, revenueData, marketData, predictions) ==
  LET days == 0..(daysAhead - 1)
      pass(i) == Prediction(revenueData, marketData, targetDate, i)
  IN  IF \E i \in days : pass(i).threw
      THEN [status |-> "threw", error |-> "TypeError: Assignment to constant variable.",
            value |-> <<>>]
      ELSE [status |-> "returned", error |-> "",
            value |-> [hotelId |-> hotelId, targetDate |-> targetDate,
                       daysAhead |-> daysAhead,
                       predictions |-> predictions \o
                                       [k \in 1..Cardinality(days) |-> pass(k - 1).prediction]]]

(***************************************************************************)
(* recommendPricing: the computation that follows Hotel.findById           *)
(***************************************************************************)
roomTypes ==
  << [name |-> "Standard", basePrice |-> 100],
     [name |-> "Deluxe", basePrice |-> 150],
     [name |-> "Suite", basePrice |-> 250],
     [name |-> "Executive Suite", basePrice |-> 350] >>

\* variant: the premium of a room type does not depend on the type
RoomTypeFactor_Flat(name) == Num(1)

RoomTypeFactor(name) ==
  IF name = "Standard" THEN Num(1)
  ELSE IF name = "Deluxe" THEN Rat(11, 10)
  ELSE IF name = "Suite" THEN Rat(12, 10)
  ELSE Rat(13, 10)

DemandFactor(predictedOccupancy) ==
  IF RGt(predictedOccupancy, Num(80)) THEN Rat(14, 10)
  ELSE IF RGt(predictedOccupancy, Num(60)) THEN Rat(12, 10)
  ELSE IF RGt(predictedOccupancy, Num(40)) THEN Num(1)
  ELSE Rat(9, 10)

RecommendedPrice(roomType, prediction) ==
  MathRound(RMul(RMul(RMul(Num(roomType.basePrice), DemandFactor(prediction.predictedOccupancy)),
                      RoomTypeFactor(roomType.name)),
                 prediction.factors.seasonalityFactor))

\* variant: the lower bound computed with the factor of the upper bound
MinPrice_UpperFactor(recommendedPrice) == MathRound(RMul(Num(recommendedPrice), Rat(11, 10)))

MinPrice(recommendedPrice) == MathRound(RMul(Num(recommendedPrice), Rat(9, 10)))
MaxPrice(recommendedPrice) == MathRound(RMul(Num(recommendedPrice), Rat(11, 10)))

RoomTypeRecommendation(roomType, prediction) ==
  LET recommendedPrice == RecommendedPrice(roomType, prediction)
  IN  [roomType |-> roomType.name,
       recommendedPrice |-> recommendedPrice,
       priceRange |-> [min |-> MinPrice(recommendedPrice), max |-> MaxPrice(recommendedPrice)],
       expectedRevenue |-> RMul(Num(recommendedPrice),
                                RDiv(prediction.predictedOccupancy, Num(100)))]

DailyRecommendation(prediction) ==
  [date |-> prediction.date,
   occupancyForecast |-> prediction.predictedOccupancy,
   roomTypes |-> [k \in 1..Len(roomTypes) |-> RoomTypeRecommendation(roomTypes[k], prediction)]]

RecommendPricingBody(hotelId, targetDate, daysAhead, demandForecast, hotelFound) ==
  IF ~hotelFound
  THEN [status |-> "threw", error |-> "Hotel not found", value |-> <<>>]
  ELSE [status |-> "returned", error |-> "",
        value |-> [hotelId |-> hotelId, targetDate |-> targetDate, daysAhead |-> daysAhead,
                   recommendations |->
                     [k \in 1..Len(demandForecast.predictions) |->
                        DailyRecommendation(demandForecast.predictions[k])]]]

(***************************************************************************)
(* runSimulation                                                           *)
(***************************************************************************)
\* Math.round((new Date(endDate) - new Date(startDate)) / (24 * 60 * 60 * 1000))
\* variant: the part of a day that remains is dropped
SimulationDays_Truncated(scenario) ==
  IF scenario.endDate >= scenario.startDate
  THEN (scenario.endDate - scenario.startDate) \div TicksPerDay
  ELSE -((scenario.startDate - scenario.endDate) \div TicksPerDay)

SimulationDays(scenario) == MathRound(Rat(scenario.endDate - scenario.startDate, TicksPerDay))

PriceElasticity == Rat(-5, 10)
DemandChangeFromPrice(scenario) == RMul(scenario.priceChange, PriceElasticity)
\* variant: the marketing lift without its cap
MarketingImpact_Uncapped(scenario) ==
  RMul(RDiv(ToNumber(scenario.marketingSpend), Num(1000)), Rat(2, 100))

\* variant: the marketing lift is at least its cap
MarketingImpact_Floor(scenario) ==
  MathMax(Rat(1, 10), RMul(RDiv(ToNumber(scenario.marketingSpend), Num(1000)), Rat(2, 100)))

MarketingImpact(scenario) ==
  MathMin(Rat(1, 10), RMul(RDiv(ToNumber(scenario.marketingSpend), Num(1000)), Rat(2, 100)))
CompetitorImpact(scenario) == RMul(ToNumber(scenario.competitorPriceChange), Rat(3, 10))
OccupancyChange(scenario) ==
  RAdd(RAdd(DemandChangeFromPrice(scenario), MarketingImpact(scenario)),
       CompetitorImpact(scenario))

\* variant: the simulated occupancy is not clamped
SimulatedPrediction_Unclamped(scenario, prediction) ==
  LET newOccupancy == RMul(prediction.predictedOccupancy,
                           RAdd(Num(1), OccupancyChange(scenario)))
      newADR == RMul(prediction.predictedADR,
                     RAdd(Num(1), RDiv(scenario.priceChange, Num(100))))
      newRevPAR == RDiv(RMul(newOccupancy, newADR), Num(100))
  IN  [date |-> prediction.date,
       baseline |-> [occupancy |-> prediction.predictedOccupancy,
                     adr |-> prediction.predictedADR,
                     revPAR |-> prediction.predictedRevPAR],
       simulated |-> [occupancy |-> newOccupancy, adr |-> newADR, revPAR |-> newRevPAR],
       change |-> [occupancy |-> RSub(newOccupancy, prediction.predictedOccupancy),
                   adr |-> RSub(newADR, prediction.predictedADR),
                   revPAR |-> RSub(newRevPAR, prediction.predictedRevPAR)]]

SimulatedPrediction(scenario, prediction) ==
  LET newOccupancy == MathMin(Num(100), MathMax(Num(0),
                        RMul(prediction.predictedOccupancy,
                             RAdd(Num(1), OccupancyChange(scenario)))))
      newADR == RMul(prediction.predictedADR,
                     RAdd(Num(1), RDiv(scenario.priceChange, Num(100))))
      newRevPAR == RDiv(RMul(newOccupancy, newADR), Num(100))
  IN  [date |-> prediction.date,
       baseline |-> [occupancy |-> prediction.predictedOccupancy,
                     adr |-> prediction.predictedADR,
                     revPAR |-> prediction.predictedRevPAR],
       simulated |-> [occupancy |-> newOccupancy, adr |-> newADR, revPAR |-> newRevPAR],
       change |-> [occupancy |-> RSub(newOccupancy, prediction.predictedOccupancy),
                   adr |-> RSub(newADR, prediction.predictedADR),
                   revPAR |-> RSub(newRevPAR, prediction.predictedRevPAR)]]

RECURSIVE SumRat(_)
\* reduce((sum, p) => sum + p, 0) over a list of numbers
SumRat(xs) == IF xs = <<>> THEN Num(0)
              ELSE RAdd(SumRat(SubSeq(xs, 1, Len(xs) - 1)), xs[Len(xs)])

\* variant: the change of the total is taken relative to the simulated total
RunSimulationBody_PercentOfSimulated(hotelId, scenario, baselineForecast) ==
  LET simulatedPredictions ==
        [k \in 1..Len(baselineForecast.predictions) |->
           SimulatedPrediction(scenario, baselineForecast.predictions[k])]
      baselineTotalRevPAR ==
        SumRat([k \in 1..Len(baselineForecast.predictions) |->
                  baselineForecast.predictions[k].predictedRevPAR])
      simulatedTotalRevPAR ==
        SumRat([k \in 1..Len(simulatedPredictions) |-> simulatedPredictions[k].simulated.revPAR])
      totalRevPARChange == RSub(simulatedTotalRevPAR, baselineTotalRevPAR)
      percentRevPARChange == RMul(RDiv(totalRevPARChange, simulatedTotalRevPAR), Num(100))
      roi == IF RGt(ToNumber(scenario.marketingSpend), Num(0))
             THEN <<RMul(RDiv(totalRevPARChange, scenario.marketingSpend), Num(100))>>
             ELSE Null
  IN  [status |-> "returned", error |-> "",
       value |-> [hotelId |-> hotelId, scenario |-> scenario,
                  summary |-> [baselineTotalRevPAR |-> baselineTotalRevPAR,
                               simulatedTotalRevPAR |-> simulatedTotalRevPAR,
                               totalRevPARChange |-> totalRevPARChange,
                               percentRevPARChange |-> percentRevPARChange,
                               roi |-> roi],
                  dailyResults |-> simulatedPredictions]]

\* variant: a baseline total of zero gives a change of zero percent
RunSimulationBody_ZeroGuard(hotelId, scenario, baselineForecast) ==
  LET simulatedPredictions ==
        [k \in 1..Len(baselineForecast.predictions) |->
           SimulatedPrediction(scenario, baselineForecast.predictions[k])]
      baselineTotalRevPAR ==
        SumRat([k \in 1..Len(baselineForecast.predictions) |->
                  baselineForecast.predictions[k].predictedRevPAR])
      simulatedTotalRevPAR ==
        SumRat([k \in 1..Len(simulatedPredictions) |-> simulatedPredictions[k].simulated.revPAR])
      totalRevPARChange == RSub(simulatedTotalRevPAR, baselineTotalRevPAR)
      percentRevPARChange ==
        IF baselineTotalRevPAR = Num(0) THEN Num(0)
        ELSE RMul(RDiv(totalRevPARChange, baselineTotalRevPAR), Num(100))
      roi == IF RGt(ToNumber(scenario.marketingSpend), Num(0))
             THEN <<RMul(RDiv(totalRevPARChange, scenario.marketingSpend), Num(100))>>
             ELSE Null
  IN  [status |-> "returned", error |-> "",
       value |-> [hotelId |-> hotelId, scenario |-> scenario,
                  summary |-> [baselineTotalRevPAR |-> baselineTotalRevPAR,
                               simulatedTotalRevPAR |-> simulatedTotalRevPAR,
                               totalRevPARChange |-> totalRevPARChange,
                               percentRevPARChange |-> percentRevPARChange,
                               roi |-> roi],
                  dailyResults |-> simulatedPredictions]]

RunSimulationBody(hotelId, scenario, baselineForecast) ==
  LET simulatedPredictions ==
        [k \in 1..Len(baselineForecast.predictions) |->
           SimulatedPrediction(scenario, baselineForecast.predictions[k])]
      baselineTotalRevPAR ==
        SumRat([k \in 1..Len(baselineForecast.predictions) |->
                  baselineForecast.predictions[k].predictedRevPAR])
      simulatedTotalRevPAR ==
        SumRat([k \in 1..Len(simulatedPredictions) |-> simulatedPredictions[k].simulated.revPAR])
      totalRevPARChange == RSub(simulatedTotalRevPAR, baselineTotalRevPAR)
      percentRevPARChange == RMul(RDiv(totalRevPARChange, baselineTotalRevPAR), Num(100))
      roi == IF RGt(ToNumber(scenario.marketingSpend), Num(0))
             THEN <<RMul(RDiv(totalRevPARChange, scenario.marketingSpend), Num(100))>>
             ELSE Null
  IN  [status |-> "returned", error |-> "",
       value |-> [hotelId |-> hotelId, scenario |-> scenario,
                  summary |-> [baselineTotalRevPAR |-> baselineTotalRevPAR,
                               simulatedTotalRevPAR |-> simulatedTotalRevPAR,
                               totalRevPARChange |-> totalRevPARChange,
                               percentRevPARChange |-> percentRevPARChange,
                               roi |-> roi],
                  dailyResults |-> simulatedPredictions]]

(***************************************************************************)
(* calculateKPIs: the computation that follows the fetch                   *)
(***************************************************************************)
\* variant: each average is taken over the documents that carry the field
CalculateKPIsBody_SkipMissing(revenueData) ==
  LET carrying(field) ==
        Cardinality({k \in 1..Len(revenueData) : revenueData[k][field] # Null})
      zero == [totalRevenue |-> Num(0), averageOccupancy |-> Num(0),
               averageADR |-> Num(0), averageRevPAR |-> Num(0),
               revenueBreakdown |-> [room |-> Num(0), foodBeverage |-> Num(0),
                                     spa |-> Num(0), retail |-> Num(0), other |-> Num(0)]]
  IN  [status |-> "returned", error |-> "",
       value |->
         IF Len(revenueData) = 0 THEN zero
         ELSE [zero EXCEPT
                 !.totalRevenue = Num(SumField(revenueData, "totalRevenue")),
                 !.averageOccupancy = Rat(SumField(revenueData, "occupancyRate"),
                                          carrying("occupancyRate")),
                 !.averageADR = Rat(SumField(revenueData, "adr"), carrying("adr")),
                 !.averageRevPAR = Rat(SumField(revenueData, "revPAR"), carrying("revPAR")),
                 !.revenueBreakdown =
                   [room |-> Num(SumField(revenueData, "roomRevenue")),
                    foodBeverage |-> Num(SumField(revenueData, "foodBeverageRevenue")),
                    spa |-> Num(SumField(revenueData, "spaRevenue")),
                    retail |-> Num(SumField(revenueData, "retailRevenue")),
                    other |-> Num(SumField(revenueData, "otherRevenue"))]]]

\* variant: the empty result without its revenueBreakdown
CalculateKPIsBody_PartialEmpty(revenueData) ==
  IF Len(revenueData) = 0
  THEN [status |-> "returned", error |-> "",
        value |-> [totalRevenue |-> Num(0), averageOccupancy |-> Num(0),
                   averageADR |-> Num(0), averageRevPAR |-> Num(0)]]
  ELSE CalculateKPIsBody_SkipMissing(revenueData)

CalculateKPIsBody(revenueData) ==
  IF Len(revenueData) = 0
  THEN [status |-> "returned", error |-> "",
        value |-> [totalRevenue |-> Num(0), averageOccupancy |-> Num(0),
                   averageADR |-> Num(0), averageRevPAR |-> Num(0),
                   revenueBreakdown |-> [room |-> Num(0), foodBeverage |-> Num(0),
                                         spa |-> Num(0), retail |-> Num(0), other |-> Num(0)]]]
  ELSE LET dataPoints == Len(revenueData)
       IN  [status |-> "returned", error |-> "",
            value |-> [totalRevenue |-> Num(SumField(revenueData, "totalRevenue")),
                       averageOccupancy |-> Rat(SumField(revenueData, "occupancyRate"), dataPoints),
                       averageADR |-> Rat(SumField(revenueData, "adr"), dataPoints),
                       averageRevPAR |-> Rat(SumField(revenueData, "revPAR"), dataPoints),
                       revenueBreakdown |->
                         [room |-> Num(SumField(revenueData, "roomRevenue")),
                          foodBeverage |-> Num(SumField(revenueData, "foodBeverageRevenue")),
                          spa |-> Num(SumField(revenueData, "spaRevenue")),
                          retail |-> Num(SumField(revenueData, "retailRevenue")),
                          other |-> Num(SumField(revenueData, "otherRevenue"))]]]

(***************************************************************************)
(* Invocations                                                             *)
(***************************************************************************)
SlotIds == {1, 2}

Pending == [status |-> "pending", error |-> "", value |-> <<>>]

\* the body of a controller's response; a key that the body lacks reads ""
Reply(status, success, message, error, data) ==
  [status |-> status, success |-> success, message |-> message, error |-> error,
   data |-> data]
NoReply == Reply(0, FALSE, "", "", <<>>)

\* variant: in production the response carries the generic message only
ControllerResponse_GenericInProduction(outcome) ==
  IF outcome.status = "returned" THEN Reply(200, TRUE, "", "", outcome.value)
  ELSE Reply(500, FALSE, "Internal server error",
             IF processEnv.NODE_ENV = "production" THEN "" ELSE outcome.error, <<>>)

\* the controller's continuation of `await RevenuePulseModel.<operation>(...)`: the
\* result under data, or the catch block's 500 with error.message
ControllerResponse(outcome) ==
  IF outcome.status = "returned" THEN Reply(200, TRUE, "", "", outcome.value)
  ELSE Reply(500, FALSE, "Internal server error", outcome.error, <<>>)

IdleSlot ==
  [pc |-> "idle", op |-> "none", hotelId |-> "", targetDate |-> 0, daysAhead |-> 0,
   scenario |-> <<>>, startDate |-> 0, endDate |-> 0,
   revenueData |-> <<>>, forecast |-> <<>>, outcome |-> Pending,
   seenAtCall |-> <<>>, seenAtDone |-> <<>>, undisturbed |-> FALSE, overlapped |-> FALSE,
   raised |-> <<>>, response |-> NoReply]

\* The collections only grow, so their lengths identify the state of the store
Seen == <<Len(revenueStore), Len(marketStore)>>

\* saveRevenueData: the schema's defaults fill the fields the request leaves out
RevenueDoc(hotelId, date, occupancyRate, adr) ==
  [hotelId |-> hotelId, date |-> date, occupancyRate |-> occupancyRate, adr |-> adr,
   revPAR |-> Val(0), totalRevenue |-> Val(0), roomRevenue |-> Val(0),
   foodBeverageRevenue |-> Val(0), spaRevenue |-> Val(0), retailRevenue |-> Val(0),
   otherRevenue |-> Val(0)]

MarketDoc(hotelId, date, events) == [hotelId |-> hotelId, date |-> date, events |-> events]

SaveRevenueData(doc) ==
  /\ Len(revenueStore) < MaxRevenue
  /\ revenueStore' = Append(revenueStore, doc)
  /\ UNCHANGED <<hotelStore, marketStore, slot, authVars>>

SaveMarketData(doc) ==
  /\ Len(marketStore) < MaxMarket
  /\ marketStore' = Append(marketStore, doc)
  /\ UNCHANGED <<hotelStore, revenueStore, slot, authVars>>

InFlight(j) == slot[j].pc \notin {"idle", "done"}

\* entry of an operation up to its first await; seenAtCall, seenAtDone, undisturbed
\* and overlapped record, for the properties, the state of the store around the
\* invocation and whether another invocation was in flight during it
Begin(i, op, hotelId, targetDate, daysAhead, scenario, startDate, endDate) ==
  /\ slot[i].pc = "idle"
  /\ slot' = [j \in SlotIds |->
       IF j = i
       THEN [pc |-> "await_revenue", op |-> op, hotelId |-> hotelId,
             targetDate |-> targetDate, daysAhead |-> daysAhead, scenario |-> scenario,
             startDate |-> startDate, endDate |-> endDate,
             revenueData |-> <<>>, forecast |-> <<>>, outcome |-> Pending,
             seenAtCall |-> Seen, seenAtDone |-> <<>>, undisturbed |-> FALSE,
             overlapped |-> \E k \in SlotIds \ {i} : InFlight(k),
             raised |-> <<>>, response |-> NoReply]
       ELSE IF InFlight(j) THEN [slot[j] EXCEPT !.overlapped = TRUE]
       ELSE slot[j]]
  /\ UNCHANGED <<hotelStore, revenueStore, marketStore, authVars>>

\* variant: the documents are fetched up to the last forecast day
CallPredictDemand_ThroughForecast(i, hotelId, targetDate, daysAhead) ==
  Begin(i, "predictDemand", hotelId, targetDate, daysAhead, <<>>,
        LookbackStart(targetDate), ForecastDate(targetDate, daysAhead))

CallPredictDemand(i, hotelId, targetDate, daysAhead) ==
  Begin(i, "predictDemand", hotelId, targetDate, daysAhead, <<>>,
        LookbackStart(targetDate), targetDate)

CallRecommendPricing(i, hotelId, targetDate, daysAhead) ==
  Begin(i, "recommendPricing", hotelId, targetDate, daysAhead, <<>>,
        LookbackStart(targetDate), targetDate)

CallRunSimulation(i, hotelId, scenario) ==
  Begin(i, "runSimulation", hotelId, scenario.startDate, SimulationDays(scenario), scenario,
        LookbackStart(scenario.startDate), scenario.startDate)

CallCalculateKPIs(i, hotelId, startDate, endDate) ==
  Begin(i, "calculateKPIs", hotelId, 0, 0, <<>>, startDate, endDate)

\* the operation settles: its promise resolves with a value or rejects with an error,
\* and the controller that awaits it builds its response
Settle(slots, i, outcome) ==
  [slots EXCEPT ![i] = [slots[i] EXCEPT !.pc = "done", !.outcome = outcome,
                                        !.revenueData = <<>>, !.forecast = <<>>,
                                        !.seenAtCall = <<>>, !.seenAtDone = Seen,
                                        !.undisturbed = (slots[i].seenAtCall = Seen),
                                        !.response = ControllerResponse(outcome)]]

\* variant: revenueData is a binding of the module, shared by all invocations
BindRevenueData_ModuleLevel(i, data) ==
  [j \in SlotIds |-> [slot[j] EXCEPT !.revenueData = data]]

\* `const revenueData = await this.getRevenueData(...)`: a binding of this invocation
BindRevenueData(i, data) == [slot EXCEPT ![i].revenueData = data]

\* variant: predictions is a list of the module, which earlier calls have filled
NewPredictions_ModuleLevel(i) ==
  LET earlier == {j \in SlotIds \ {i} :
                    /\ slot[j].pc = "done" /\ slot[j].op = "predictDemand"
                    /\ slot[j].outcome.status = "returned"}
  IN  IF earlier = {} THEN <<>>
      ELSE slot[CHOOSE j \in earlier : TRUE].outcome.value.predictions

\* `const predictions = []`: a fresh list for this invocation
NewPredictions(i) == <<>>

RevenueFetched(i) ==
  /\ slot[i].pc = "await_revenue"
  /\ LET me == slot[i]
         bound == BindRevenueData(i, getRevenueData(me.hotelId, me.startDate, me.endDate))
     IN  slot' = IF me.op = "calculateKPIs"
                 THEN Settle(bound, i, CalculateKPIsBody(bound[i].revenueData))
                 ELSE [bound EXCEPT ![i].pc = "await_market"]
  /\ UNCHANGED <<hotelStore, revenueStore, marketStore, authVars>>

MarketFetched(i) ==
  /\ slot[i].pc = "await_market"
  /\ LET me == slot[i]
         marketData == getMarketData(me.hotelId, me.startDate, me.endDate)
         forecast == PredictDemandBody(me.hotelId, me.targetDate, me.daysAhead,
                                       me.revenueData, marketData, NewPredictions(i))
     IN  slot' =
           IF me.op = "predictDemand" \/ forecast.status = "threw"
           THEN Settle(slot, i, forecast)
           ELSE IF me.op = "runSimulation"
           THEN Settle(slot, i, RunSimulationBody(me.hotelId, me.scenario, forecast.value))
           ELSE [slot EXCEPT ![i] = [@ EXCEPT !.pc = "await_hotel",
                                              !.forecast = forecast.value]]
  /\ UNCHANGED <<hotelStore, revenueStore, marketStore, authVars>>

HotelFetched(i) ==
  /\ slot[i].pc = "await_hotel"
  /\ LET me == slot[i]
     IN  slot' = Settle(slot, i,
                   RecommendPricingBody(me.hotelId, me.targetDate, me.daysAhead,
                                        me.forecast, me.hotelId \in hotelStore))
  /\ UNCHANGED <<hotelStore, revenueStore, marketStore, authVars>>

\* variant: a catch block throws a new error that quotes the one it caught
Rethrow_Wrapped(error) == "Error fetching data: " \o error

\* catch (error) { console.error(...); throw error; }
Rethrow(error) == error

\* the awaited query rejects with an error, which is recorded in raised; the catch blocks
\* around the await rethrow it and the operation rejects
FetchFailed(i, error) ==
  /\ slot[i].pc \in {"await_revenue", "await_market", "await_hotel"}
  /\ slot' = Settle([slot EXCEPT ![i].raised = <<error>>], i,
                    [status |-> "threw", error |-> Rethrow(error), value |-> <<>>])
  /\ UNCHANGED <<hotelStore, revenueStore, marketStore, authVars>>

\* the response is sent and the request ends
Respond(i) ==
  /\ slot[i].pc = "done"
  /\ slot' = [slot EXCEPT ![i] = IdleSlot]
  /\ UNCHANGED <<hotelStore, revenueStore, marketStore, authVars>>

(***************************************************************************)
(* Authentication: tokens (jsonwebtoken), AuthController, authMiddleware    *)
(***************************************************************************)
MaxClock == 3

Users == {"u1", "u2"}
PasswordOf(userId) == IF userId = "u1" THEN "Test@123456" ELSE "Other@123456"

\* const JWT_SECRET / TOKEN_EXPIRY of the controller ('24h')
JWT_SECRET == "fifthkeys-jwt-secret"
TOKEN_EXPIRY == TicksPerDay

\* securityConfig.jwt, evaluated when the module is loaded
securityConfig ==
  [jwt |-> [secret |-> IF processEnv.JWT_SECRET # "" THEN processEnv.JWT_SECRET
                         ELSE "fifthkeys-jwt-secret",
            expiresIn |-> TicksPerDay,
            algorithm |-> "HS256",
            issuer |-> "fifthkeys-platform"]]

\* jwt.sign(payload, secret, options): the signature is modelled by the key it was
\* made with; an absent issuer option leaves the token without iss claim ("")
JwtSign(userId, secret, expiresIn, algorithm, issuer) ==
  [wellFormed |-> TRUE, userId |-> userId, iat |-> now, exp |-> now + expiresIn,
   iss |-> issuer, alg |-> algorithm, key |-> secret]

\* a string that is no JWT, the empty string included
Malformed ==
  [wellFormed |-> FALSE, userId |-> "", iat |-> 0, exp |-> 0, iss |-> "", alg |-> "",
   key |-> ""]

\* jwt.verify(token, secret, {algorithms, issuer}): the decoded payload or the error
JwtVerify(token, secret, algorithms, issuer) ==
  IF ~token.wellFormed THEN [ok |-> FALSE, name |-> "JsonWebTokenError", userId |-> ""]
  ELSE IF token.alg \notin algorithms
  THEN [ok |-> FALSE, name |-> "JsonWebTokenError", userId |-> ""]
  ELSE IF token.key # secret
  THEN [ok |-> FALSE, name |-> "JsonWebTokenError", userId |-> ""]
  ELSE IF now >= token.exp
  THEN [ok |-> FALSE, name |-> "TokenExpiredError", userId |-> ""]
  ELSE IF token.iss # issuer
  THEN [ok |-> FALSE, name |-> "JsonWebTokenError", userId |-> ""]
  ELSE [ok |-> TRUE, name |-> "", userId |-> token.userId]

\* generateToken(userId) of the security module
generateToken(userId) ==
  JwtSign(userId, securityConfig.jwt.secret, securityConfig.jwt.expiresIn,
          securityConfig.jwt.algorithm, securityConfig.jwt.issuer)

\* jwt.sign({ userId: user._id }, JWT_SECRET, { expiresIn: TOKEN_EXPIRY }) of login
LoginToken(userId) == JwtSign(userId, JWT_SECRET, TOKEN_EXPIRY, "HS256", "")

NoResponse == [status |-> 0, success |-> FALSE, message |-> "", data |-> ""]
Json(status, success, message, data) ==
  [status |-> status, success |-> success, message |-> message, data |-> data]

IdleLogin == [pc |-> "idle", email |-> "", password |-> "", userId |-> "", token |-> <<>>,
              response |-> NoResponse]
IdleAuthReq ==
  [pc |-> "idle", authorization |-> <<>>, receivedAt |-> 0, decoded |-> "", user |-> "",
   error |-> "", handlerInvoked |-> FALSE, activeAtLookup |-> FALSE,
   response |-> NoResponse]

ClientIdle == login.pc = "idle" /\ authReq.pc = "idle"

\* time passes
Tick ==
  /\ now < MaxClock
  /\ now' = now + 1
  /\ UNCHANGED <<hotelStore, revenueStore, marketStore, slot,
                 userStore, processEnv, authToken, login, authReq>>

\* an administrator sets isActive of a user document
SetActive(userId, isActive) ==
  /\ userId \in DOMAIN userStore
  /\ userStore[userId].isActive # isActive
  /\ userStore' = [userStore EXCEPT ![userId].isActive = isActive]
  /\ UNCHANGED <<hotelStore, revenueStore, marketStore, slot,
                 processEnv, now, authToken, login, authReq>>

\* a user document is removed from the collection
DeleteUser(userId) ==
  /\ userId \in DOMAIN userStore
  /\ userStore' = [u \in DOMAIN userStore \ {userId} |-> userStore[u]]
  /\ UNCHANGED <<hotelStore, revenueStore, marketStore, slot,
                 processEnv, now, authToken, login, authReq>>

\* a caller of generateToken hands the token to the client
GenerateToken(userId) ==
  /\ ClientIdle
  /\ userId \in DOMAIN userStore
  /\ authToken' = <<generateToken(userId)>>
  /\ UNCHANGED <<hotelStore, revenueStore, marketStore, slot,
                 userStore, processEnv, now, login, authReq>>

\* AuthController.login up to `await User.findOne({ email })`
Login(email, password) ==
  /\ ClientIdle
  /\ login' =
       IF email = "" \/ password = ""
       THEN [IdleLogin EXCEPT !.pc = "done", !.email = email, !.password = password,
               !.response = Json(400, FALSE, "Email and password are required", "")]
       ELSE [IdleLogin EXCEPT !.pc = "await_findOne", !.email = email,
                              !.password = password]
  /\ UNCHANGED <<hotelStore, revenueStore, marketStore, slot,
                 userStore, processEnv, now, authToken, authReq>>

\* login from the result of findOne up to `await user.save()`; the e-mail address of
\* a user is its id, and bcrypt.compare accepts exactly the user's password
LoginUserFound ==
  /\ login.pc = "await_findOne"
  /\ login' =
       IF login.email \notin DOMAIN userStore
       THEN [login EXCEPT !.pc = "done",
               !.response = Json(401, FALSE, "Invalid email or password", "")]
       ELSE IF ~userStore[login.email].isActive
       THEN [login EXCEPT !.pc = "done",
               !.response = Json(401, FALSE,
                                 "Account is inactive. Please contact administrator.", "")]
       ELSE IF login.password # userStore[login.email].password
       THEN [login EXCEPT !.pc = "done",
               !.response = Json(401, FALSE, "Invalid email or password", "")]
       ELSE [login EXCEPT !.pc = "await_save", !.userId = login.email]
  /\ UNCHANGED <<hotelStore, revenueStore, marketStore, slot,
                 userStore, processEnv, now, authToken, authReq>>

\* login after user.save(): the token is signed and sent
LoginSaved ==
  /\ login.pc = "await_save"
  /\ login' = [login EXCEPT !.pc = "done", !.token = <<LoginToken(login.userId)>>,
                            !.response = Json(200, TRUE, "Login successful", login.userId)]
  /\ UNCHANGED <<hotelStore, revenueStore, marketStore, slot,
                 userStore, processEnv, now, authToken, authReq>>

\* an awaited call of login rejects: the catch block answers 500
LoginFailed ==
  /\ login.pc \in {"await_findOne", "await_save"}
  /\ login' = [login EXCEPT !.pc = "done",
                            !.response = Json(500, FALSE, "Internal server error", "")]
  /\ UNCHANGED <<hotelStore, revenueStore, marketStore, slot,
                 userStore, processEnv, now, authToken, authReq>>

\* the client reads the response of login and keeps the token it carries
LoginResponse ==
  /\ login.pc = "done"
  /\ login' = IdleLogin
  /\ authToken' = IF login.response.status = 200 THEN login.token ELSE authToken
  /\ UNCHANGED <<hotelStore, revenueStore, marketStore, slot,
                 userStore, processEnv, now, authReq>>

\* authHeader.startsWith('Bearer ') and authHeader.split(' ')[1] on a header value
\* given as its words; an absent header is <<>>
StartsWithBearer(authHeader) == Len(authHeader) >= 2 /\ authHeader[1] = "Bearer"
BearerToken(authHeader) == authHeader[2]

\* authMiddleware from its entry to `await User.findById(decoded.userId)`, or to the
\* `await logAuditEvent` of its catch block
GetProfile(authorization) ==
  /\ ClientIdle
  /\ LET req == [IdleAuthReq EXCEPT !.authorization = authorization, !.receivedAt = now]
         decoded == JwtVerify(BearerToken(authorization), securityConfig.jwt.secret,
                              {securityConfig.jwt.algorithm}, securityConfig.jwt.issuer)
     IN  authReq' =
           IF ~StartsWithBearer(authorization)
           THEN [req EXCEPT !.pc = "done",
                   !.response = Json(401, FALSE, "Access denied. No token provided.", "")]
           ELSE IF ~decoded.ok
           THEN [req EXCEPT !.pc = "await_failure_audit", !.error = decoded.name]
           ELSE [req EXCEPT !.pc = "await_findById", !.decoded = decoded.userId]
  /\ UNCHANGED <<hotelStore, revenueStore, marketStore, slot,
                 userStore, processEnv, now, authToken, login>>

\* variant: the middleware does not look at isActive
MiddlewareUserFound_NoActiveCheck ==
  /\ authReq.pc = "await_findById"
  /\ authReq' =
       IF authReq.decoded \notin DOMAIN userStore
       THEN [authReq EXCEPT !.pc = "done",
               !.response = Json(401, FALSE, "Invalid token. User not found.", "")]
       ELSE [authReq EXCEPT !.pc = "await_success_audit", !.user = authReq.decoded,
                            !.activeAtLookup = userStore[authReq.decoded].isActive]
  /\ UNCHANGED <<hotelStore, revenueStore, marketStore, slot,
                 userStore, processEnv, now, authToken, login>>

\* authMiddleware from the result of findById to `await logAuditEvent(... 'success')`
MiddlewareUserFound ==
  /\ authReq.pc = "await_findById"
  /\ authReq' =
       IF authReq.decoded \notin DOMAIN userStore
       THEN [authReq EXCEPT !.pc = "done",
               !.response = Json(401, FALSE, "Invalid token. User not found.", "")]
       ELSE IF ~userStore[authReq.decoded].isActive
       THEN [authReq EXCEPT !.pc = "done",
               !.response = Json(401, FALSE,
                                 "Account is inactive. Please contact administrator.", "")]
       ELSE [authReq EXCEPT !.pc = "await_success_audit", !.user = authReq.decoded,
                            !.activeAtLookup = userStore[authReq.decoded].isActive]
  /\ UNCHANGED <<hotelStore, revenueStore, marketStore, slot,
                 userStore, processEnv, now, authToken, login>>

\* User.findById rejects inside authMiddleware: the catch block is entered
MiddlewareLookupFailed ==
  /\ authReq.pc = "await_findById"
  /\ authReq' = [authReq EXCEPT !.pc = "await_failure_audit", !.error = "MongoError"]
  /\ UNCHANGED <<hotelStore, revenueStore, marketStore, slot,
                 userStore, processEnv, now, authToken, login>>

\* next(): AuthController.getProfile runs up to `await User.findById(userId)`
MiddlewareNext ==
  /\ authReq.pc = "await_success_audit"
  /\ authReq' = [authReq EXCEPT !.pc = "await_profile", !.handlerInvoked = TRUE]
  /\ UNCHANGED <<hotelStore, revenueStore, marketStore, slot,
                 userStore, processEnv, now, authToken, login>>

\* the catch block of authMiddleware after its audit entry
MiddlewareRejected ==
  /\ authReq.pc = "await_failure_audit"
  /\ authReq' =
       [authReq EXCEPT !.pc = "done",
          !.response =
            IF authReq.error = "JsonWebTokenError"
            THEN Json(401, FALSE, "Invalid token.", "")
            ELSE IF authReq.error = "TokenExpiredError"
            THEN Json(401, FALSE, "Token expired.", "")
            ELSE Json(500, FALSE, "Internal server error during authentication.", "")]
  /\ UNCHANGED <<hotelStore, revenueStore, marketStore, slot,
                 userStore, processEnv, now, authToken, login>>

\* getProfile from the result of findById to its response
ProfileFound ==
  /\ authReq.pc = "await_profile"
  /\ authReq' =
       [authReq EXCEPT !.pc = "done",
          !.response = IF authReq.user \notin DOMAIN userStore
                       THEN Json(404, FALSE, "User not found", "")
                       ELSE Json(200, TRUE, "", authReq.user)]
  /\ UNCHANGED <<hotelStore, revenueStore, marketStore, slot,
                 userStore, processEnv, now, authToken, login>>

\* User.findById rejects inside getProfile
ProfileLookupFailed ==
  /\ authReq.pc = "await_profile"
  /\ authReq' = [authReq EXCEPT !.pc = "done",
                                !.response = Json(500, FALSE, "Internal server error", "")]
  /\ UNCHANGED <<hotelStore, revenueStore, marketStore, slot,
                 userStore, processEnv, now, authToken, login>>

\* the client reads the response of the profile route
ProfileResponse ==
  /\ authReq.pc = "done"
  /\ authReq' = IdleAuthReq
  /\ UNCHANGED <<hotelStore, revenueStore, marketStore, slot,
                 userStore, processEnv, now, authToken, login>>

(***************************************************************************)
(* Specification of one client: requests are issued one after the other    *)
(***************************************************************************)
\* the users that the test suite creates before its first request
InitialUsers ==
  [u \in Users |-> [email |-> u, password |-> PasswordOf(u), isActive |-> TRUE]]

Init ==
  /\ hotelStore = {"h1"}
  /\ revenueStore = <<>>
  /\ marketStore = <<>>
  /\ slot = [i \in SlotIds |-> IdleSlot]
  /\ userStore = InitialUsers
  /\ processEnv = [JWT_SECRET |-> "", NODE_ENV |-> ""]
  /\ now = 0
  /\ authToken = <<>>
  /\ login = IdleLogin
  /\ authReq = IdleAuthReq

Wed6Mar == Date2024(2, 6)
Sat9MarNoon == Date2024(2, 9) + Noon
Thu30May == Date2024(4, 30)
Mon30Sep == Date2024(8, 30)
Tue31Dec == Date2024(11, 31)

Fri8Mar == Date2024(2, 8)
TargetInputs == {Wed6Mar, Fri8Mar, Sat9MarNoon, Thu30May, Mon30Sep, Tue31Dec}
\* one target in each calendar month that the forecasts of TargetInputs do not visit
MonthInputs ==
  {Date2024(1, 14), Date2024(3, 10), Date2024(6, 15), Date2024(7, 20), Date2024(10, 5)}
DaysAheadInputs == 0..MaxDaysAhead

\* the revenue figures of a request body: revPAR, totalRevenue and the five categories
WithRevenue(doc, f) ==
  [doc EXCEPT !.revPAR = f[1], !.totalRevenue = f[2], !.roomRevenue = f[3],
              !.foodBeverageRevenue = f[4], !.spaRevenue = f[5],
              !.retailRevenue = f[6], !.otherRevenue = f[7]]

RevenueInputs ==
  {RevenueDoc("h1", Date2024(2, 1), Null, Null),
   RevenueDoc("h1", Date2024(2, 8), Val(-20), Val(180)),
   RevenueDoc("h2", Date2024(11, 1), Val(50), Val(200)),
   WithRevenue(RevenueDoc("h1", Date2024(2, 1), Val(70), Val(180)),
               <<Val(126), Val(1000), Val(600), Val(200), Val(100), Val(60), Val(40)>>),
   WithRevenue(RevenueDoc("h1", Date2024(2, 1), Val(150), Val(100)),
               <<Null, Val(7), Null, Val(3), Null, Val(4), Null>>)}

MarketInputs ==
  {MarketDoc("h1", Date2024(2, 9), <<>>),
   MarketDoc("h1", Date2024(2, 9), <<"high">>),
   MarketDoc("h1", Date2024(2, 6), <<"medium", "low">>)}

Scenario(startDate, endDate, priceChange, marketingSpend, competitorPriceChange) ==
  [startDate |-> startDate, endDate |-> endDate, priceChange |-> priceChange,
   marketingSpend |-> marketingSpend, competitorPriceChange |-> competitorPriceChange]

ScenarioFigures ==
  {<<Num(10), Num(0), Num(0)>>, <<Num(0), Num(0), Num(0)>>,
   <<Num(-10), Num(1000), Num(5)>>, <<Num(0), Num(6000), Num(0)>>,
   <<Num(0), Undefined, Undefined>>, <<Num(0), Num(1000), Undefined>>}

\* two whole days with each set of figures; no day; an end before the start; an end at
\* noon of the third day
ScenarioInputs ==
  {Scenario(Wed6Mar, Date2024(2, 8), f[1], f[2], f[3]) : f \in ScenarioFigures}
    \cup {Scenario(Wed6Mar, Wed6Mar, Num(0), Num(0), Num(0)),
          Scenario(Wed6Mar, Date2024(2, 5), Num(10), Num(0), Num(0)),
          Scenario(Wed6Mar, Date2024(2, 8) + Noon, Num(0), Num(0), Num(-5))}

\* the client awaits each response before it sends its next request
NoRequestInFlight == \A i \in SlotIds : slot[i].pc = "idle"

Next ==
  \/ NoRequestInFlight /\ \E doc \in RevenueInputs : SaveRevenueData(doc)
  \/ NoRequestInFlight /\ \E doc \in MarketInputs : SaveMarketData(doc)
  \/ \E d \in DaysAheadInputs : CallPredictDemand(1, "h1", Wed6Mar, d)
  \/ \E t \in TargetInputs : CallPredictDemand(1, "h1", t, MaxDaysAhead)
  \/ \E t \in MonthInputs : CallPredictDemand(1, "h1", t, 1)
  \/ CallPredictDemand(1, "h2", Tue31Dec, MaxDaysAhead)
  \/ \E h \in Hotels, t \in {Sat9MarNoon, Thu30May} :
        CallRecommendPricing(1, h, t, MaxDaysAhead)
  \/ \E sc \in ScenarioInputs : CallRunSimulation(1, "h1", sc)
  \/ CallCalculateKPIs(1, "h1", Date2024(2, 1), Wed6Mar)
  \/ RevenueFetched(1)
  \/ MarketFetched(1)
  \/ HotelFetched(1)
  \/ FetchFailed(1, "MongoError")
  \/ Respond(1)

Spec == Init /\ [][Next]_vars

(***************************************************************************)
(* Specification of concurrent clients: two invocations interleave at      *)
(* their awaits, and documents are saved at any moment                     *)
(***************************************************************************)
ConcRevenueInputs == {RevenueDoc("h1", Date2024(2, 1), Val(70), Val(180))}
ConcMarketInputs == {MarketDoc("h2", Date2024(2, 9), <<"high">>)}
ConcScenario ==
  Scenario(Wed6Mar, SetDate(Wed6Mar, GetDate(Wed6Mar) + 1), Num(-10), Num(1000), Num(5))

NextConc ==
  \/ \E doc \in ConcRevenueInputs : SaveRevenueData(doc)
  \/ \E doc \in ConcMarketInputs : SaveMarketData(doc)
  \/ \E i \in SlotIds : CallPredictDemand(i, "h1", Sat9MarNoon, 1)
  \/ \E i \in SlotIds : CallRecommendPricing(i, "h1", Sat9MarNoon, 1)
  \/ \E i \in SlotIds : CallRunSimulation(i, "h2", ConcScenario)
  \/ \E i \in SlotIds : CallCalculateKPIs(i, "h1", Date2024(2, 1), Wed6Mar)
  \/ \E i \in SlotIds : RevenueFetched(i)
  \/ \E i \in SlotIds : MarketFetched(i)
  \/ \E i \in SlotIds : HotelFetched(i)
  \/ \E i \in SlotIds : Respond(i)

SpecConc == Init /\ [][NextConc]_vars

(***************************************************************************)
(* Specification of the authentication routes: one client logs in and      *)
(* requests its profile while users are deactivated or removed             *)
(***************************************************************************)
InitAuth ==
  /\ hotelStore = {"h1"}
  /\ revenueStore = <<>>
  /\ marketStore = <<>>
  /\ slot = [i \in SlotIds |-> IdleSlot]
  /\ userStore = InitialUsers
  /\ processEnv \in {[JWT_SECRET |-> secret, NODE_ENV |-> ""] :
                        secret \in {"", "test-jwt-secret"}}
  /\ now = 0
  /\ authToken = <<>>
  /\ login = IdleLogin
  /\ authReq = IdleAuthReq

\* a token signed with a key of the sender's own
Forged(userId) ==
  JwtSign(userId, "attacker-secret", securityConfig.jwt.expiresIn,
          securityConfig.jwt.algorithm, securityConfig.jwt.issuer)

\* the Authorization headers that the client sends
AuthorizationInputs ==
  {<<>>, <<"Basic", Malformed>>, <<"Bearer", Malformed>>, <<"Bearer", Forged("u1")>>}
    \cup (IF authToken = <<>> THEN {}
          ELSE {<<"Bearer", authToken[1]>>, <<"Token", authToken[1]>>})

CredentialInputs ==
  {<<"u1", PasswordOf("u1")>>, <<"u2", PasswordOf("u2")>>, <<"u1", "wrongpassword">>,
   <<"", "">>}

NextAuth ==
  \/ Tick
  \/ \E u \in Users, b \in BOOLEAN : SetActive(u, b)
  \/ \E u \in Users : DeleteUser(u)
  \/ \E u \in Users : GenerateToken(u)
  \/ \E c \in CredentialInputs : Login(c[1], c[2])
  \/ LoginUserFound
  \/ LoginSaved
  \/ LoginFailed
  \/ LoginResponse
  \/ \E h \in AuthorizationInputs : GetProfile(h)
  \/ MiddlewareUserFound
  \/ MiddlewareLookupFailed
  \/ MiddlewareNext
  \/ MiddlewareRejected
  \/ ProfileFound
  \/ ProfileLookupFailed
  \/ ProfileResponse

SpecAuth == InitAuth /\ [][NextAuth]_vars

\* ---- the controllers' requests under both configurations, with failing fetches ----

\* messages of the errors a query of the database rejects with
FetchErrors == {"MongoError", "connection timed out"}

InitCtl ==
  /\ hotelStore = {"h1"}
  /\ revenueStore = <<>>
  /\ marketStore = <<>>
  /\ slot = [i \in SlotIds |-> IdleSlot]
  /\ userStore = InitialUsers
  /\ processEnv \in {[JWT_SECRET |-> "", NODE_ENV |-> env] :
                        env \in {"production", "development"}}
  /\ now = 0
  /\ authToken = <<>>
  /\ login = IdleLogin
  /\ authReq = IdleAuthReq

NextCtl ==
  \/ NoRequestInFlight /\ SaveRevenueData(RevenueDoc("h1", Fri8Mar, Val(70), Val(180)))
  \/ NoRequestInFlight /\ SaveMarketData(MarketDoc("h1", Date2024(2, 9), <<"high">>))
  \/ \E t \in {Wed6Mar, Sat9MarNoon} : CallPredictDemand(1, "h1", t, 1)
  \/ \E h \in Hotels : CallRecommendPricing(1, h, Wed6Mar, 1)
  \/ CallRunSimulation(1, "h1", Scenario(Wed6Mar, Fri8Mar, Num(10), Num(0), Num(0)))
  \/ CallCalculateKPIs(1, "h1", Date2024(2, 1), Fri8Mar)
  \/ RevenueFetched(1)
  \/ MarketFetched(1)
  \/ HotelFetched(1)
  \/ \E error \in FetchErrors : FetchFailed(1, error)
  \/ Respond(1)

SpecCtl == InitCtl /\ [][NextCtl]_vars

(***************************************************************************)
(* Properties                                                              *)
(***************************************************************************)
Settled(i, op) == slot[i].pc = "done" /\ slot[i].op = op
Returned(i, op) == Settled(i, op) /\ slot[i].outcome.status = "returned"
Threw(i, op) == Settled(i, op) /\ slot[i].outcome.status = "threw"

\* every list of predictions that predictDemand has returned: to its caller
\* directly, or to recommendPricing, which holds it across its next await
PredictionsOf(i) ==
  IF Returned(i, "predictDemand") THEN slot[i].outcome.value.predictions
  ELSE IF slot[i].pc = "await_hotel" THEN slot[i].forecast.predictions
  ELSE <<>>

\* the documents of the invocation's lookback window, as the store holds them now
WindowRevenue(i) == getRevenueData(slot[i].hotelId, slot[i].startDate, slot[i].endDate)
WindowMarket(i) == getMarketData(slot[i].hotelId, slot[i].startDate, slot[i].endDate)

\* C1: every prediction returned by predictDemand has 0 <= predictedOccupancy <= 100,
\* whatever the occupancyRate values of the historical records (negative, above 100,
\* null) and whatever the forecast date.
C1_OccupancyClamped ==
  \A i \in SlotIds : \A k \in 1..Len(PredictionsOf(i)) :
    /\ RLe(Num(0), PredictionsOf(i)[k].predictedOccupancy)
    /\ RLe(PredictionsOf(i)[k].predictedOccupancy, Num(100))

\* a returned prediction floored at 0 although the records of the window, one of them
\* with a negative occupancyRate, average below 0
C1_Witness ==
  \E i \in SlotIds :
    /\ Returned(i, "predictDemand")
    /\ Len(PredictionsOf(i)) > 0
    /\ \E k \in 1..Len(WindowRevenue(i)) : WindowRevenue(i)[k].occupancyRate = Val(-20)
    /\ RLt(AvgOccupancy(WindowRevenue(i)), Num(0))
    /\ PredictionsOf(i)[1].predictedOccupancy = Num(0)

\* C2: in every prediction returned by predictDemand, predictedRevPAR is
\* predictedOccupancy * predictedADR / 100 of the occupancy and ADR stored in that
\* same prediction (the clamped occupancy).
C2_RevPARIdentity ==
  \A i \in SlotIds : \A k \in 1..Len(PredictionsOf(i)) :
    LET p == PredictionsOf(i)[k]
    IN  p.predictedRevPAR = RDiv(RMul(p.predictedOccupancy, p.predictedADR), Num(100))

\* a returned prediction whose occupancy was cut to 100 by the clamp and whose RevPAR
\* is positive
C2_Witness ==
  \E i \in SlotIds :
    /\ Returned(i, "predictDemand")
    /\ Len(PredictionsOf(i)) > 0
    /\ LET p == PredictionsOf(i)[1]
       IN  /\ RGt(RMul(RMul(AvgOccupancy(WindowRevenue(i)), p.factors.weekendFactor),
                       p.factors.seasonalityFactor), Num(100))
           /\ p.predictedOccupancy = Num(100)
           /\ RGt(p.predictedRevPAR, Num(0))
           /\ p.predictedRevPAR = p.predictedADR

FetchesSucceeded(i) == slot[i].outcome.error # "MongoError"

ImpactIncrement(expectedImpact) ==
  IF expectedImpact = "high" THEN Rat(2, 10)
  ELSE IF expectedImpact = "medium" THEN Rat(1, 10)
  ELSE IF expectedImpact = "low" THEN Rat(5, 100)
  ELSE Num(0)

\* 1.0 plus the increments of all events of the market document of the forecast day
CumulativeEventsImpact(marketData, forecastDate) ==
  LET relevant == RelevantMarketData(marketData, forecastDate)
      events == IF relevant = <<>> THEN <<>> ELSE relevant[1].events
  IN  RAdd(Num(1), SumRat([k \in 1..Len(events) |-> ImpactIncrement(events[k])]))

\* C3: eventsImpact of a forecast day is 1.0 plus 0.2 / 0.1 / 0.05 for every high /
\* medium / low event of the market document of that calendar date; a Saturday in
\* March with avgOccupancy 70, baseADR 180 and one high event yields eventsImpact 1.2,
\* predictedOccupancy 100, predictedADR 257.4 and predictedRevPAR 257.4.
C3_EventsImpactCumulative ==
  \A i \in SlotIds :
    (Settled(i, "predictDemand") /\ FetchesSucceeded(i)) =>
      /\ Returned(i, "predictDemand")
      /\ \A k \in 1..Len(PredictionsOf(i)) :
           PredictionsOf(i)[k].factors.eventsImpact =
             CumulativeEventsImpact(WindowMarket(i), PredictionsOf(i)[k].date)
      /\ ( /\ slot[i].targetDate = Sat9MarNoon
           /\ slot[i].daysAhead > 0
           /\ AvgOccupancy(WindowRevenue(i)) = Num(70)
           /\ BaseADR(WindowRevenue(i)) = Num(180)
           /\ CumulativeEventsImpact(WindowMarket(i), Sat9MarNoon) = Rat(12, 10) )
         => /\ PredictionsOf(i)[1].factors.eventsImpact = Rat(12, 10)
            /\ PredictionsOf(i)[1].predictedOccupancy = Num(100)
            /\ PredictionsOf(i)[1].predictedADR = Rat(2574, 10)
            /\ PredictionsOf(i)[1].predictedRevPAR = Rat(2574, 10)

\* C4: predictDemand(hotelId, targetDate, daysAhead) returns exactly daysAhead
\* predictions, the k-th (from 0) dated targetDate + k days: ascending, without gaps
\* or duplicates, the first for targetDate itself.
C4_OnePredictionPerDay ==
  \A i \in SlotIds :
    (Settled(i, "predictDemand") /\ FetchesSucceeded(i)) =>
      /\ Returned(i, "predictDemand")
      /\ Len(PredictionsOf(i)) = slot[i].daysAhead
      /\ \A k \in 1..Len(PredictionsOf(i)) :
           /\ DayOf(PredictionsOf(i)[k].date) = DayOf(slot[i].targetDate) + (k - 1)
           /\ TimeOf(PredictionsOf(i)[k].date) = TimeOf(slot[i].targetDate)

\* C7: with no historical revenue document in the lookback window predictDemand does
\* not raise: it returns daysAhead predictions with predictedOccupancy 0,
\* predictedRevPAR 0 and predictedADR 100 * 0.8 * seasonalityFactor.
C7_NoHistoryDefaults ==
  \A i \in SlotIds :
    (Settled(i, "predictDemand") /\ FetchesSucceeded(i) /\ WindowRevenue(i) = <<>>) =>
      /\ Returned(i, "predictDemand")
      /\ Len(PredictionsOf(i)) = slot[i].daysAhead
      /\ \A k \in 1..Len(PredictionsOf(i)) :
           LET p == PredictionsOf(i)[k]
           IN  /\ p.predictedOccupancy = Num(0)
               /\ p.predictedRevPAR = Num(0)
               /\ p.predictedADR = RMul(RMul(Num(100), Rat(8, 10)), p.factors.seasonalityFactor)

\* two invocations of the same operation with the same arguments
SameCall(i, j) ==
  /\ slot[i].op = slot[j].op
  /\ slot[i].hotelId = slot[j].hotelId
  /\ slot[i].targetDate = slot[j].targetDate
  /\ slot[i].daysAhead = slot[j].daysAhead

SameOutcome(a, b) ==
  /\ a.status = b.status
  /\ a.error = b.error
  /\ a.status = "returned" => a.value = b.value

\* C5: two calls of predictDemand with identical (hotelId, targetDate, daysAhead)
\* against an unchanged record store return identical prediction lists: nothing left
\* by an earlier call, no clock and no randomness enters the output.
C5_Idempotent ==
  \A i, j \in SlotIds :
    ( /\ Settled(i, "predictDemand") /\ Settled(j, "predictDemand")
      /\ SameCall(i, j)
      /\ slot[i].undisturbed /\ slot[j].undisturbed
      /\ slot[i].seenAtDone = slot[j].seenAtDone )
    => SameOutcome(slot[i].outcome, slot[j].outcome)

\* two calls with the same arguments have both returned a non-empty list over the
\* same store, which holds a revenue document
C5_Witness ==
  \E i, j \in SlotIds :
    /\ i # j
    /\ Returned(i, "predictDemand") /\ Returned(j, "predictDemand")
    /\ SameCall(i, j)
    /\ slot[i].undisturbed /\ slot[j].undisturbed
    /\ slot[i].seenAtDone = slot[j].seenAtDone
    /\ slot[i].seenAtDone[1] > 0
    /\ Len(PredictionsOf(i)) > 0
    /\ RGt(PredictionsOf(i)[1].predictedOccupancy, Num(0))

\* the result of invocation i run alone against the store it has seen
AloneOutcome(i) ==
  LET me == slot[i]
      revenueData == FindByHotelAndRange(SubSeq(revenueStore, 1, me.seenAtDone[1]),
                                         me.hotelId, me.startDate, me.endDate)
      marketData == FindByHotelAndRange(SubSeq(marketStore, 1, me.seenAtDone[2]),
                                        me.hotelId, me.startDate, me.endDate)
      forecast == PredictDemandBody(me.hotelId, me.targetDate, me.daysAhead,
                                    revenueData, marketData, <<>>)
  IN  IF me.op = "calculateKPIs" THEN CalculateKPIsBody(revenueData)
      ELSE IF me.op = "predictDemand" \/ forecast.status = "threw" THEN forecast
      ELSE IF me.op = "runSimulation"
      THEN RunSimulationBody(me.hotelId, me.scenario, forecast.value)
      ELSE RecommendPricingBody(me.hotelId, me.targetDate, me.daysAhead, forecast.value,
                                me.hotelId \in hotelStore)

\* C6: invocations of predictDemand, recommendPricing, runSimulation and calculateKPIs
\* that interleave at their awaited fetches each return what they return when run
\* alone: no invocation reads or writes state shared with another one.
C6_Isolation ==
  \A i \in SlotIds :
    (slot[i].pc = "done" /\ slot[i].undisturbed) =>
      SameOutcome(slot[i].outcome, AloneOutcome(i))

\* two invocations for different hotels have overlapped and both have settled, one of
\* them with a prediction computed from the revenue document of its hotel
C6_Witness ==
  \E i, j \in SlotIds :
    /\ slot[i].pc = "done" /\ slot[j].pc = "done"
    /\ slot[i].undisturbed /\ slot[j].undisturbed
    /\ slot[i].overlapped /\ slot[j].overlapped
    /\ slot[i].hotelId # slot[j].hotelId
    /\ Returned(i, "predictDemand")
    /\ Len(PredictionsOf(i)) > 0
    /\ RGt(PredictionsOf(i)[1].predictedOccupancy, Num(0))

\* the room-type recommendations that recommendPricing has returned
RoomTypeRecommendationsOf(i) ==
  IF Returned(i, "recommendPricing")
  THEN {slot[i].outcome.value.recommendations[k].roomTypes[r] :
          k \in 1..Len(slot[i].outcome.value.recommendations), r \in 1..Len(roomTypes)}
  ELSE {}

\* C8: every room-type recommendation of recommendPricing has priceRange.min =
\* round(recommendedPrice * 0.9), priceRange.max = round(recommendedPrice * 1.1) and
\* priceRange.min <= recommendedPrice <= priceRange.max.
C8_PriceRange ==
  \A i \in SlotIds : \A rec \in RoomTypeRecommendationsOf(i) :
    /\ rec.priceRange.min = MathRound(RMul(Num(rec.recommendedPrice), Rat(9, 10)))
    /\ rec.priceRange.max = MathRound(RMul(Num(rec.recommendedPrice), Rat(11, 10)))
    /\ rec.priceRange.min <= rec.recommendedPrice
    /\ rec.recommendedPrice <= rec.priceRange.max

\* a returned recommendation whose bounds are rounded values strictly around the price
C8_Witness ==
  \E i \in SlotIds : \E rec \in RoomTypeRecommendationsOf(i) :
    /\ (rec.recommendedPrice * 9) % 10 # 0
    /\ rec.priceRange.min < rec.recommendedPrice
    /\ rec.recommendedPrice < rec.priceRange.max

\* C9: recommendPricing fails with 'Hotel not found', and returns no recommendations,
\* whenever the hotel document cannot be located; when the hotel exists and the
\* fetches succeed it returns recommendations; it modifies no stored document.
C9_NotFoundOrRecommendations ==
  [][\A i \in SlotIds :
       (slot'[i] # slot[i] /\ slot'[i].op = "recommendPricing") =>
         /\ UNCHANGED <<hotelStore, revenueStore, marketStore>>
         /\ (slot'[i].pc = "done" /\ slot'[i].outcome.error # "MongoError") =>
              IF slot'[i].hotelId \in hotelStore
              THEN /\ slot'[i].outcome.status = "returned"
                   /\ Len(slot'[i].outcome.value.recommendations) = slot'[i].daysAhead
              ELSE /\ slot'[i].outcome.status = "threw"
                   /\ slot'[i].outcome.error = "Hotel not found"
                   /\ slot'[i].outcome.value = <<>>]_vars

\* C10: the price-driven demand change is a fraction of occupancy: with priceChange
\* 10, marketingSpend 0 and competitorPriceChange 0 occupancyChange is -0.05 (a 10%
\* price increase gives a 5% demand decrease), and a baseline day of
\* predictedOccupancy 70 and predictedADR 150 gives occupancy 66.5, adr 165 and
\* revPAR 109.725.
C10_PriceElasticityFractional ==
  \A i \in SlotIds :
    ( /\ Returned(i, "runSimulation")
      /\ slot[i].scenario.priceChange = Num(10)
      /\ slot[i].scenario.marketingSpend = Num(0)
      /\ slot[i].scenario.competitorPriceChange = Num(0) ) =>
      /\ OccupancyChange(slot[i].scenario) = Rat(-5, 100)
      /\ \A k \in 1..Len(slot[i].outcome.value.dailyResults) :
           LET day == slot[i].outcome.value.dailyResults[k]
           IN  /\ day.simulated.occupancy = RMul(day.baseline.occupancy, Rat(95, 100))
               /\ day.simulated.adr = RMul(day.baseline.adr, Rat(11, 10))
               /\ day.simulated.revPAR =
                    RDiv(RMul(day.simulated.occupancy, day.simulated.adr), Num(100))
      /\ LET day == SimulatedPrediction(slot[i].scenario,
                      [date |-> slot[i].targetDate, predictedOccupancy |-> Num(70),
                       predictedADR |-> Num(150), predictedRevPAR |-> Num(105)])
         IN  /\ day.simulated.occupancy = Rat(665, 10)
             /\ day.simulated.adr = Num(165)
             /\ day.simulated.revPAR = Rat(109725, 1000)

SummaryOf(i) == slot[i].outcome.value.summary

\* C11: summary.roi of runSimulation is null when scenario.marketingSpend is 0 or
\* omitted, and is the finite number (totalRevPARChange / marketingSpend) * 100 when
\* marketingSpend > 0 and the baseline total RevPAR is nonzero.
C11_RoiNullOrFinite ==
  \A i \in SlotIds :
    Returned(i, "runSimulation") =>
      LET marketingSpend == slot[i].scenario.marketingSpend
      IN  /\ (marketingSpend = Undefined \/ marketingSpend = Num(0)) =>
               SummaryOf(i).roi = Null
          /\ ( /\ marketingSpend # Undefined
               /\ RGt(marketingSpend, Num(0))
               /\ SummaryOf(i).baselineTotalRevPAR # Num(0) ) =>
               /\ SummaryOf(i).roi # Null
               /\ IsFinite(SummaryOf(i).roi[1])
               /\ SummaryOf(i).roi[1] =
                    RMul(RDiv(SummaryOf(i).totalRevPARChange, marketingSpend), Num(100))

DailyResultsOf(i) == slot[i].outcome.value.dailyResults

\* C12: the marketing contribution to occupancyChange is (marketingSpend / 1000) *
\* 0.02 for a spend up to 5000 and never exceeds 0.10 for any marketingSpend >= 0:
\* marketing alone never lifts a day's simulated occupancy by more than 10% of its
\* baseline occupancy.
C12_MarketingImpactCapped ==
  \A i \in SlotIds :
    ( /\ Returned(i, "runSimulation")
      /\ slot[i].scenario.marketingSpend # Undefined
      /\ RLe(Num(0), slot[i].scenario.marketingSpend) ) =>
      LET scenario == slot[i].scenario
          lift == RSub(RSub(OccupancyChange(scenario), DemandChangeFromPrice(scenario)),
                       CompetitorImpact(scenario))
      IN  /\ IsFinite(CompetitorImpact(scenario)) =>
               /\ RLe(lift, Rat(1, 10))
               /\ RLe(scenario.marketingSpend, Num(5000)) =>
                    lift = RMul(RDiv(scenario.marketingSpend, Num(1000)), Rat(2, 100))
          /\ (scenario.priceChange = Num(0) /\ scenario.competitorPriceChange = Num(0)) =>
               \A k \in 1..Len(DailyResultsOf(i)) :
                 RLe(DailyResultsOf(i)[k].simulated.occupancy,
                     RMul(DailyResultsOf(i)[k].baseline.occupancy, Rat(11, 10)))

\* a simulation with a spend of 6000 and no other change has lifted a day's occupancy
\* by exactly 10%, below the clamp at 100
C12_Witness ==
  \E i \in SlotIds :
    /\ Returned(i, "runSimulation")
    /\ slot[i].scenario.marketingSpend = Num(6000)
    /\ slot[i].scenario.priceChange = Num(0)
    /\ slot[i].scenario.competitorPriceChange = Num(0)
    /\ Len(DailyResultsOf(i)) > 0
    /\ RGt(DailyResultsOf(i)[1].baseline.occupancy, Num(0))
    /\ RLt(DailyResultsOf(i)[1].simulated.occupancy, Num(100))
    /\ DailyResultsOf(i)[1].simulated.occupancy =
         RMul(DailyResultsOf(i)[1].baseline.occupancy, Rat(11, 10))

KPIFields == {"totalRevenue", "averageOccupancy", "averageADR", "averageRevPAR",
              "revenueBreakdown"}
BreakdownFields == {"room", "foodBeverage", "spa", "retail", "other"}

\* C13: calculateKPIs over an empty record set returns, without error and without
\* NaN, totalRevenue 0, averageOccupancy 0, averageADR 0, averageRevPAR 0 and
\* revenueBreakdown {room 0, foodBeverage 0, spa 0, retail 0, other 0}; the result has
\* the same fields, at both nesting levels, as the result for a non-empty record set.
C13_EmptyKPIsAllZero ==
  \A i \in SlotIds :
    (Settled(i, "calculateKPIs") /\ FetchesSucceeded(i)) =>
      /\ Returned(i, "calculateKPIs")
      /\ DOMAIN slot[i].outcome.value = KPIFields
      /\ DOMAIN slot[i].outcome.value.revenueBreakdown = BreakdownFields
      /\ WindowRevenue(i) = <<>> =>
           slot[i].outcome.value =
             [totalRevenue |-> Num(0), averageOccupancy |-> Num(0), averageADR |-> Num(0),
              averageRevPAR |-> Num(0),
              revenueBreakdown |-> [f \in BreakdownFields |-> Num(0)]]

\* calculateKPIs has returned for a window without documents
C13_Witness ==
  \E i \in SlotIds :
    /\ Returned(i, "calculateKPIs")
    /\ WindowRevenue(i) = <<>>
    /\ slot[i].outcome.value.averageOccupancy = Num(0)

\* the sum of a field over the documents, a null field counting as 0
FieldTotal(docs, field) ==
  LET RECURSIVE from(_)
      from(k) == IF k > Len(docs) THEN 0
                 ELSE (IF docs[k][field] = Null THEN 0 ELSE docs[k][field][1]) + from(k + 1)
  IN  from(1)

\* C14: for n > 0 records calculateKPIs returns totalRevenue = the sum of
\* totalRevenue, each revenueBreakdown field = the sum of its category, and
\* averageOccupancy / averageADR / averageRevPAR = the sum of occupancyRate / adr /
\* revPAR divided by n; a missing field counts as 0 but its record counts in n.
C14_KPIsSumsAndMeans ==
  \A i \in SlotIds :
    (Returned(i, "calculateKPIs") /\ WindowRevenue(i) # <<>>) =>
      LET docs == WindowRevenue(i)
          n == Len(docs)
          kpis == slot[i].outcome.value
      IN  /\ kpis.totalRevenue = Num(FieldTotal(docs, "totalRevenue"))
          /\ kpis.revenueBreakdown.room = Num(FieldTotal(docs, "roomRevenue"))
          /\ kpis.revenueBreakdown.foodBeverage = Num(FieldTotal(docs, "foodBeverageRevenue"))
          /\ kpis.revenueBreakdown.spa = Num(FieldTotal(docs, "spaRevenue"))
          /\ kpis.revenueBreakdown.retail = Num(FieldTotal(docs, "retailRevenue"))
          /\ kpis.revenueBreakdown.other = Num(FieldTotal(docs, "otherRevenue"))
          /\ kpis.averageOccupancy = Rat(FieldTotal(docs, "occupancyRate"), n)
          /\ kpis.averageADR = Rat(FieldTotal(docs, "adr"), n)
          /\ kpis.averageRevPAR = Rat(FieldTotal(docs, "revPAR"), n)

\* KPIs over two documents, one of them without revPAR and roomRevenue: the sums and
\* the means over both documents are all different from 0
C14_Witness ==
  \E i \in SlotIds :
    /\ Returned(i, "calculateKPIs")
    /\ Len(WindowRevenue(i)) = 2
    /\ \E k \in 1..2 : WindowRevenue(i)[k].revPAR = Null
    /\ \E k \in 1..2 : WindowRevenue(i)[k].revPAR # Null
    /\ slot[i].outcome.value.averageRevPAR = Num(63)
    /\ slot[i].outcome.value.totalRevenue = Num(1007)
    /\ slot[i].outcome.value.revenueBreakdown.room = Num(600)

\* the token of the request, when its Authorization header is 'Bearer <token>'
CarriesBearer == authReq.pc # "idle" /\ StartsWithBearer(authReq.authorization)
TokenOf == BearerToken(authReq.authorization)

\* tokens as AuthController.login signs them
IssuedByLogin(token) == token.wellFormed /\ token.key = JWT_SECRET /\ token.iss = ""

\* C15: after a successful login of an active user, a request to the profile route
\* with 'Bearer <token>' passes authMiddleware and returns 200 with that user's data:
\* every token issued by login satisfies the secret, algorithm and issuer checks of
\* the middleware.
C15_LoginTokenOpensProfile ==
  ( /\ authReq.pc = "done"
    /\ CarriesBearer
    /\ IssuedByLogin(TokenOf)
    /\ authReq.receivedAt < TokenOf.exp ) =>
    /\ authReq.response.message \notin {"Invalid token.", "Token expired."}
    /\ authReq.activeAtLookup => authReq.handlerInvoked
    /\ ( /\ authReq.handlerInvoked
         /\ TokenOf.userId \in DOMAIN userStore
         /\ authReq.response.status # 500 ) =>
         /\ authReq.response.status = 200
         /\ authReq.response.data = TokenOf.userId

\* the checks of jwt.verify as the middleware configures them, at a given time
Verifies(token, at) ==
  /\ token.wellFormed
  /\ token.alg = "HS256"
  /\ token.key = securityConfig.jwt.secret
  /\ at < token.exp
  /\ token.iss = "fifthkeys-platform"

\* next() was called only for a verified token of a user found active
NextOnlyIfAuthenticated ==
  authReq.handlerInvoked =>
    /\ CarriesBearer
    /\ Verifies(TokenOf, authReq.receivedAt)
    /\ authReq.activeAtLookup
    /\ authReq.user = TokenOf.userId

\* C16 as claimed: authMiddleware calls next(), with req.user set, only for a header
\* 'Bearer <token>' whose token verifies and maps to an existing user with isActive
\* true at the time of the request; in every other case the response is 401 with
\* success false and the handler is never invoked.
C16_NextOnlyElse401 ==
  /\ NextOnlyIfAuthenticated
  /\ (authReq.pc = "done" /\ ~authReq.handlerInvoked) =>
       /\ authReq.response.status = 401
       /\ authReq.response.success = FALSE

\* C16 amended: as claimed, except that the response is 500 with success false, not
\* 401, when the error raised inside the middleware is no JWT error (User.findById
\* rejected); the handler is not invoked then either.
C16_NextOnlyElse401Or500 ==
  /\ NextOnlyIfAuthenticated
  /\ (authReq.pc = "done" /\ ~authReq.handlerInvoked) =>
       /\ authReq.response.success = FALSE
       /\ authReq.response.status = IF authReq.error = "MongoError" THEN 500 ELSE 401
       /\ authReq.error = "MongoError" =>
            (CarriesBearer /\ Verifies(TokenOf, authReq.receivedAt))

\* a request refused with 401 although its token verifies and its user exists: the
\* user was deactivated after the token was issued
C16_Witness ==
  /\ authReq.pc = "done"
  /\ CarriesBearer
  /\ Verifies(TokenOf, authReq.receivedAt)
  /\ TokenOf.iat <= authReq.receivedAt
  /\ TokenOf.userId \in DOMAIN userStore
  /\ ~authReq.handlerInvoked
  /\ authReq.response.status = 401
  /\ authReq.response.message = "Account is inactive. Please contact administrator."

\* the revenue documents of the invocation's hotel dated from 90 days before
\* targetDate to targetDate
LookbackRecords(i) ==
  SelectSeq(revenueStore,
    LAMBDA doc : /\ doc.hotelId = slot[i].hotelId
                 /\ doc.date >= slot[i].targetDate - 90 * TicksPerDay
                 /\ doc.date <= slot[i].targetDate)

MeanOr(docs, field, default) ==
  IF docs = <<>> THEN Num(default) ELSE Rat(FieldTotal(docs, field), Len(docs))

\* C17: avgOccupancy and baseADR of predictDemand are the means over exactly the
\* revenue records of the hotel dated from targetDate minus 90 days to targetDate;
\* records outside that window and records of other hotels change no prediction,
\* and the window does not depend on daysAhead.
C17_LookbackWindow ==
  \A i \in SlotIds : \A k \in 1..Len(PredictionsOf(i)) :
    LET p == PredictionsOf(i)[k]
        avgOccupancy == MeanOr(LookbackRecords(i), "occupancyRate", 0)
        baseADR == MeanOr(LookbackRecords(i), "adr", 100)
    IN  /\ p.predictedOccupancy =
             MathMin(Num(100), MathMax(Num(0),
               RMul(RMul(RMul(avgOccupancy, p.factors.weekendFactor),
                         p.factors.seasonalityFactor), p.factors.eventsImpact)))
        /\ p.predictedADR =
             RMul(RMul(baseADR, OccupancyADRFactor(p.predictedOccupancy)),
                  p.factors.seasonalityFactor)

\* predictions were returned from one record of the window while the store also
\* holds a record of another hotel or of a date outside the window
C17_Witness ==
  \E i \in SlotIds :
    /\ Returned(i, "predictDemand")
    /\ Len(PredictionsOf(i)) > 1
    /\ Len(revenueStore) = 2
    /\ Len(LookbackRecords(i)) = 1
    /\ RGt(PredictionsOf(i)[2].predictedOccupancy, Num(0))
    /\ RLt(PredictionsOf(i)[2].predictedOccupancy, Num(100))

\* 1 January 2024 is a Monday
IsFriSatSun(date) == (date \div TicksPerDay) % 7 \in {4, 5, 6}

\* C18: for a forecast day without events predictedOccupancy = clamp(avgOccupancy *
\* weekendFactor * seasonalityFactor, 0, 100), weekendFactor being 1.2 on Sunday,
\* Friday and Saturday and 1.0 otherwise; avgOccupancy 70 and baseADR 180 on a
\* Wednesday in March give predictedOccupancy 77, predictedADR 217.8 and
\* predictedRevPAR 167.706.
C18_NoEventOccupancy ==
  \A i \in SlotIds : \A k \in 1..Len(PredictionsOf(i)) :
    LET p == PredictionsOf(i)[k]
    IN  CumulativeEventsImpact(WindowMarket(i), p.date) = Num(1) =>
          /\ p.factors.weekendFactor = IF IsFriSatSun(p.date) THEN Rat(12, 10) ELSE Num(1)
          /\ p.predictedOccupancy =
               MathMin(Num(100), MathMax(Num(0),
                 RMul(RMul(MeanOr(LookbackRecords(i), "occupancyRate", 0),
                           p.factors.weekendFactor), p.factors.seasonalityFactor)))
          /\ ( /\ p.date = Wed6Mar
               /\ MeanOr(LookbackRecords(i), "occupancyRate", 0) = Num(70)
               /\ MeanOr(LookbackRecords(i), "adr", 100) = Num(180) ) =>
               /\ p.predictedOccupancy = Num(77)
               /\ p.predictedADR = Rat(2178, 10)
               /\ p.predictedRevPAR = Rat(167706, 1000)

\* predictDemand has returned, from avgOccupancy 70 and baseADR 180, the prediction
\* 77 for Wednesday 6 March and a prediction with weekendFactor 1.2 for Friday 8 March
C18_Witness ==
  \E i \in SlotIds :
    /\ Returned(i, "predictDemand")
    /\ slot[i].targetDate = Wed6Mar
    /\ Len(PredictionsOf(i)) = 3
    /\ MeanOr(LookbackRecords(i), "occupancyRate", 0) = Num(70)
    /\ MeanOr(LookbackRecords(i), "adr", 100) = Num(180)
    /\ PredictionsOf(i)[1].predictedOccupancy = Num(77)
    /\ PredictionsOf(i)[3].factors.weekendFactor = Rat(12, 10)
    /\ IsFriSatSun(PredictionsOf(i)[3].date)

\* the tier of an occupancy, read from the lowest tier upwards
TierFactor(occupancy) ==
  IF RLe(occupancy, Num(40)) THEN Rat(8, 10)
  ELSE IF RLe(occupancy, Num(60)) THEN Rat(9, 10)
  ELSE IF RLe(occupancy, Num(80)) THEN Rat(11, 10)
  ELSE Rat(13, 10)

AllPredictions == UNION {{PredictionsOf(i)[k] : k \in 1..Len(PredictionsOf(i))} : i \in SlotIds}

\* C19: predictedADR = baseADR * occupancyADRFactor * seasonalityFactor, the factor
\* being 1.3 above 80, 1.1 above 60, 0.9 above 40 and 0.8 otherwise of the clamped
\* predictedOccupancy (exactly 80, 60 or 40 falls in the lower tier), and a higher
\* predictedOccupancy never has a lower factor.
C19_PredictedADRTiers ==
  /\ OccupancyADRFactor(Num(80)) = Rat(11, 10) /\ OccupancyADRFactor(Num(81)) = Rat(13, 10)
  /\ OccupancyADRFactor(Num(60)) = Rat(9, 10) /\ OccupancyADRFactor(Num(61)) = Rat(11, 10)
  /\ OccupancyADRFactor(Num(40)) = Rat(8, 10) /\ OccupancyADRFactor(Num(41)) = Rat(9, 10)
  /\ \A i \in SlotIds :
       LET predictions == PredictionsOf(i)
           baseADR == MeanOr(LookbackRecords(i), "adr", 100)
       IN  /\ \A k \in 1..Len(predictions) :
                LET p == predictions[k]
                IN  /\ RLe(Num(0), p.predictedOccupancy)
                    /\ RLe(p.predictedOccupancy, Num(100))
                    /\ p.predictedADR =
                         RMul(RMul(baseADR, TierFactor(p.predictedOccupancy)),
                              p.factors.seasonalityFactor)
           /\ \A k, l \in 1..Len(predictions) :
                RLe(predictions[k].predictedOccupancy, predictions[l].predictedOccupancy) =>
                  RLe(OccupancyADRFactor(predictions[k].predictedOccupancy),
                      OccupancyADRFactor(predictions[l].predictedOccupancy))

\* predictDemand has returned a prediction whose predictedOccupancy is exactly 60
\* (avgOccupancy 50 on a winter weekday) with predictedADR 200 * 0.9 * 1.2 = 216
C19_Witness ==
  \E i \in SlotIds :
    /\ Returned(i, "predictDemand")
    /\ \E k \in 1..Len(PredictionsOf(i)) :
         /\ PredictionsOf(i)[k].predictedOccupancy = Num(60)
         /\ MeanOr(LookbackRecords(i), "adr", 100) = Num(200)
         /\ PredictionsOf(i)[k].predictedADR = Num(216)

\* the seasonalityFactor of each calendar month (0 = January)
SeasonOfMonth ==
  [m \in 0..11 |->
     IF m \in {5, 6, 7, 8} THEN Rat(13, 10)
     ELSE IF m \in {11, 0, 1} THEN Rat(12, 10)
     ELSE IF m \in {2, 3, 4} THEN Rat(11, 10)
     ELSE Rat(9, 10)]

\* C20: the seasonalityFactor recorded in a prediction is the one of the forecast
\* day's calendar month: 1.3 for June-September, 1.2 for December-February, 1.1 for
\* March-May, 0.9 for October and November; it is always one of 0.9, 1.1, 1.2, 1.3.
C20_SeasonalityByForecastMonth ==
  \A p \in AllPredictions :
    /\ p.factors.seasonalityFactor = SeasonOfMonth[GetMonth(p.date)]
    /\ p.factors.seasonalityFactor \in {Rat(9, 10), Rat(11, 10), Rat(12, 10), Rat(13, 10)}

\* predictDemand for the target 30 May has returned a prediction for 1 June whose
\* seasonalityFactor is 1.3, while the target's month has 1.1
C20_Witness ==
  \E i \in SlotIds :
    /\ Returned(i, "predictDemand")
    /\ slot[i].targetDate = Thu30May
    /\ \E k \in 1..Len(PredictionsOf(i)) :
         /\ GetMonth(PredictionsOf(i)[k].date) = 5
         /\ GetMonth(slot[i].targetDate) = 4
         /\ PredictionsOf(i)[k].factors.seasonalityFactor = Rat(13, 10)
         /\ SeasonOfMonth[GetMonth(slot[i].targetDate)] = Rat(11, 10)

\* the forecast that predictDemand gives the invocation from the documents of its window
ForecastOf(i) ==
  PredictDemandBody(slot[i].hotelId, slot[i].targetDate, slot[i].daysAhead,
                    WindowRevenue(i), WindowMarket(i), <<>>)

RecommendationsOf(i) == slot[i].outcome.value.recommendations

RoomTypeTable ==
  << <<"Standard", 100, Num(1)>>, <<"Deluxe", 150, Rat(11, 10)>>,
     <<"Suite", 250, Rat(12, 10)>>, <<"Executive Suite", 350, Rat(13, 10)>> >>

\* the demand tier of an occupancy, read from the lowest tier upwards
DemandTier(occupancy) ==
  IF RLe(occupancy, Num(40)) THEN Rat(9, 10)
  ELSE IF RLe(occupancy, Num(60)) THEN Num(1)
  ELSE IF RLe(occupancy, Num(80)) THEN Rat(12, 10)
  ELSE Rat(14, 10)

\* C21: recommendPricing returns one entry per forecast prediction, in the same order,
\* each with the four room types Standard, Deluxe, Suite, Executive Suite (base prices
\* 100/150/250/350, type factors 1.0/1.1/1.2/1.3), recommendedPrice = round(basePrice *
\* demandFactor * typeFactor * seasonalityFactor of the day), demandFactor 1.4 above 80,
\* 1.2 above 60, 1.0 above 40 and 0.9 otherwise, and expectedRevenue = recommendedPrice
\* * predictedOccupancy / 100.
C21_RecommendationPerPrediction ==
  \A i \in SlotIds :
    Returned(i, "recommendPricing") =>
      LET recommendations == RecommendationsOf(i)
          predictions == ForecastOf(i).value.predictions
      IN  /\ Len(recommendations) = Len(predictions)
          /\ \A k \in 1..Len(recommendations) :
               LET rec == recommendations[k]
                   p == predictions[k]
               IN  /\ rec.date = p.date
                   /\ rec.occupancyForecast = p.predictedOccupancy
                   /\ Len(rec.roomTypes) = 4
                   /\ \A r \in 1..4 :
                        LET price == MathRound(RMul(RMul(RMul(Num(RoomTypeTable[r][2]),
                                                 DemandTier(p.predictedOccupancy)),
                                                 RoomTypeTable[r][3]),
                                                 p.factors.seasonalityFactor))
                        IN  /\ rec.roomTypes[r].roomType = RoomTypeTable[r][1]
                            /\ rec.roomTypes[r].recommendedPrice = price
                            /\ rec.roomTypes[r].expectedRevenue =
                                 RDiv(RMul(Num(price), p.predictedOccupancy), Num(100))

\* recommendPricing for Thursday 30 May has returned three entries; the first, from a
\* predictedOccupancy of 77, prices the Deluxe room at round(150 * 1.2 * 1.1 * 1.1) = 218
C21_Witness ==
  \E i \in SlotIds :
    /\ Returned(i, "recommendPricing")
    /\ slot[i].targetDate = Thu30May
    /\ Len(RecommendationsOf(i)) = 3
    /\ RecommendationsOf(i)[1].occupancyForecast = Num(77)
    /\ RecommendationsOf(i)[1].roomTypes[2].roomType = "Deluxe"
    /\ RecommendationsOf(i)[1].roomTypes[2].recommendedPrice = 218
    /\ RecommendationsOf(i)[3].date = Date2024(5, 1)

\* a scenario that supplies all three figures, the marketing spend not negative
FullScenario(sc) ==
  /\ sc.marketingSpend # Undefined /\ sc.competitorPriceChange # Undefined
  /\ RLe(Num(0), sc.marketingSpend)

\* priceChange * -0.5 + min(0.1, marketingSpend / 1000 * 0.02) + competitorPriceChange * 0.3
OccupancyChangeOf(sc) ==
  LET lift == RMul(sc.marketingSpend, Rat(2, 100000))
  IN  RAdd(RAdd(RMul(sc.priceChange, Rat(-1, 2)),
                IF RLe(lift, Rat(1, 10)) THEN lift ELSE Rat(1, 10)),
           RMul(sc.competitorPriceChange, Rat(3, 10)))

Clamp0To100(x) == IF RLe(x, Num(0)) THEN Num(0) ELSE IF RLe(Num(100), x) THEN Num(100) ELSE x

\* C22: for every daily result of runSimulation, whatever the sign and size of
\* priceChange and competitorPriceChange and whatever marketingSpend >= 0,
\* simulated.occupancy = clamp(baseline occupancy * (1 + occupancyChange), 0, 100), which
\* lies in [0, 100], simulated.adr = baseline adr * (1 + priceChange / 100) and
\* simulated.revPAR = simulated.occupancy * simulated.adr / 100.
C22_SimulatedDay ==
  \A i \in SlotIds :
    (Returned(i, "runSimulation") /\ FullScenario(slot[i].scenario)) =>
      \A k \in 1..Len(DailyResultsOf(i)) :
        LET day == DailyResultsOf(i)[k]
            sc == slot[i].scenario
        IN  /\ day.simulated.occupancy =
                 Clamp0To100(RMul(day.baseline.occupancy, RAdd(Num(1), OccupancyChangeOf(sc))))
            /\ RLe(Num(0), day.simulated.occupancy)
            /\ RLe(day.simulated.occupancy, Num(100))
            /\ day.simulated.adr =
                 RMul(day.baseline.adr, RAdd(Num(1), RDiv(sc.priceChange, Num(100))))
            /\ day.simulated.revPAR =
                 RDiv(RMul(day.simulated.occupancy, day.simulated.adr), Num(100))

\* runSimulation has returned days whose occupancy the clamp has cut to 100, from a
\* baseline of 77 under a price cut of 10
C22_Witness ==
  \E i \in SlotIds :
    /\ Returned(i, "runSimulation")
    /\ FullScenario(slot[i].scenario)
    /\ Len(DailyResultsOf(i)) >= 2
    /\ DailyResultsOf(i)[1].baseline.occupancy = Num(77)
    /\ slot[i].scenario.priceChange = Num(-10)
    /\ DailyResultsOf(i)[1].simulated.occupancy = Num(100)
    /\ DailyResultsOf(i)[1].simulated.adr = Rat(19602, 100)

\* C23: each daily entry's baseline is the corresponding baseline prediction and its
\* change is simulated minus baseline for occupancy, adr and revPAR; the summary totals
\* are the sums of the daily baseline and simulated revPAR, totalRevPARChange is their
\* difference and percentRevPARChange = totalRevPARChange / baselineTotalRevPAR * 100.
C23_DailyAndSummary ==
  \A i \in SlotIds :
    Returned(i, "runSimulation") =>
      LET days == DailyResultsOf(i)
          predictions == ForecastOf(i).value.predictions
          summary == SummaryOf(i)
          total(part) == SumRat([k \in 1..Len(days) |-> days[k][part].revPAR])
      IN  /\ Len(days) = Len(predictions)
          /\ \A k \in 1..Len(days) :
               /\ days[k].date = predictions[k].date
               /\ days[k].baseline = [occupancy |-> predictions[k].predictedOccupancy,
                                      adr |-> predictions[k].predictedADR,
                                      revPAR |-> predictions[k].predictedRevPAR]
               /\ \A f \in {"occupancy", "adr", "revPAR"} :
                    days[k].change[f] = RSub(days[k].simulated[f], days[k].baseline[f])
          /\ summary.baselineTotalRevPAR = total("baseline")
          /\ summary.simulatedTotalRevPAR = total("simulated")
          /\ summary.totalRevPARChange =
               RSub(summary.simulatedTotalRevPAR, summary.baselineTotalRevPAR)
          /\ summary.percentRevPARChange =
               RMul(RDiv(summary.totalRevPARChange, summary.baselineTotalRevPAR), Num(100))

\* runSimulation has returned two days whose simulated revPAR differs from the baseline,
\* with a finite, nonzero percentRevPARChange
C23_Witness ==
  \E i \in SlotIds :
    /\ Returned(i, "runSimulation")
    /\ Len(DailyResultsOf(i)) = 2
    /\ RGt(DailyResultsOf(i)[2].baseline.revPAR, Num(0))
    /\ RGt(SummaryOf(i).baselineTotalRevPAR, Num(0))
    /\ IsFinite(SummaryOf(i).percentRevPARChange)
    /\ SummaryOf(i).percentRevPARChange # Num(0)
    /\ DailyResultsOf(i)[1].change.revPAR # Num(0)

\* the baseline total of the forecast the invocation works from
BaselineTotalOf(i) ==
  LET predictions == ForecastOf(i).value.predictions
  IN  SumRat([k \in 1..Len(predictions) |-> predictions[k].predictedRevPAR])

\* C24: when the baseline total RevPAR is 0 (no historical data, or a scenario whose
\* startDate equals its endDate) runSimulation raises no error: it returns a result
\* whose percentRevPARChange is not a finite number (neither 0 nor null).
C24_ZeroBaselineNonFinite ==
  \A i \in SlotIds :
    ( /\ Settled(i, "runSimulation")
      /\ FetchesSucceeded(i)
      /\ ForecastOf(i).status = "returned"
      /\ BaselineTotalOf(i) = Num(0) ) =>
        /\ slot[i].outcome.status = "returned"
        /\ SummaryOf(i).baselineTotalRevPAR = Num(0)
        /\ ~IsFinite(SummaryOf(i).percentRevPARChange)
        /\ SummaryOf(i).percentRevPARChange # Num(0)

\* runSimulation has returned for a scenario whose endDate is its startDate, the hotel
\* having a revenue record: no daily results, baseline total 0, percentRevPARChange NaN
C24_Witness ==
  \E i \in SlotIds :
    /\ Returned(i, "runSimulation")
    /\ slot[i].scenario.endDate = slot[i].scenario.startDate
    /\ Len(WindowRevenue(i)) > 0
    /\ DailyResultsOf(i) = <<>>
    /\ SummaryOf(i).baselineTotalRevPAR = Num(0)
    /\ IsNaN(SummaryOf(i).percentRevPARChange)

\* the same request body with marketingSpend 0 and competitorPriceChange 0
WithZeros(sc) == [sc EXCEPT !.marketingSpend = Num(0), !.competitorPriceChange = Num(0)]

\* C28: a simulation request that omits marketingSpend and competitorPriceChange gives
\* the dailyResults and summary totals of the same request with both set to 0, and
\* every simulated occupancy, adr and revPAR is a number.
C28_OmittedBehaveAsZero ==
  \A i \in SlotIds :
    ( /\ Returned(i, "runSimulation")
      /\ slot[i].scenario.marketingSpend = Undefined
      /\ slot[i].scenario.competitorPriceChange = Undefined ) =>
        LET zeroed == RunSimulationBody(slot[i].hotelId, WithZeros(slot[i].scenario),
                                        ForecastOf(i).value).value
        IN  /\ DailyResultsOf(i) = zeroed.dailyResults
            /\ SummaryOf(i).baselineTotalRevPAR = zeroed.summary.baselineTotalRevPAR
            /\ SummaryOf(i).simulatedTotalRevPAR = zeroed.summary.simulatedTotalRevPAR
            /\ SummaryOf(i).totalRevPARChange = zeroed.summary.totalRevPARChange
            /\ \A k \in 1..Len(DailyResultsOf(i)) : \A f \in {"occupancy", "adr", "revPAR"} :
                 ~IsNaN(DailyResultsOf(i)[k].simulated[f])

\* the calendar day of an instant
CalendarDay(t) == t \div TicksPerDay
WholeDays(sc) == (sc.endDate - sc.startDate) % TicksPerDay = 0
\* Math.round of the scenario's length in days
RoundedDays(sc) ==
  LET twice == 2 * (sc.endDate - sc.startDate) + TicksPerDay
  IN  (twice - (twice % (2 * TicksPerDay))) \div (2 * TicksPerDay)

DatedFromStart(i) ==
  /\ Len(DailyResultsOf(i)) = IF RoundedDays(slot[i].scenario) > 0
                              THEN RoundedDays(slot[i].scenario) ELSE 0
  /\ \A k \in 1..Len(DailyResultsOf(i)) :
       DailyResultsOf(i)[k].date = slot[i].scenario.startDate + (k - 1) * TicksPerDay
  /\ slot[i].scenario.endDate <= slot[i].scenario.startDate => DailyResultsOf(i) = <<>>

C30_NeutralScenario ==
  \A i \in SlotIds :
    ( /\ Returned(i, "runSimulation")
      /\ slot[i].scenario.priceChange = Num(0)
      /\ slot[i].scenario.marketingSpend = Num(0)
      /\ slot[i].scenario.competitorPriceChange = Num(0) ) =>
        /\ \A k \in 1..Len(DailyResultsOf(i)) :
             /\ DailyResultsOf(i)[k].simulated = DailyResultsOf(i)[k].baseline
             /\ DailyResultsOf(i)[k].change =
                  [occupancy |-> Num(0), adr |-> Num(0), revPAR |-> Num(0)]
        /\ SummaryOf(i).totalRevPARChange = Num(0)
        /\ SummaryOf(i).simulatedTotalRevPAR = SummaryOf(i).baselineTotalRevPAR
        /\ SummaryOf(i).roi = Null

\* runSimulation has returned for the neutral scenario two days with a baseline
\* occupancy of 77 and a baseline revPAR of 167.706
C30_Witness ==
  \E i \in SlotIds :
    /\ Returned(i, "runSimulation")
    /\ slot[i].scenario.priceChange = Num(0)
    /\ slot[i].scenario.marketingSpend = Num(0)
    /\ slot[i].scenario.competitorPriceChange = Num(0)
    /\ Len(DailyResultsOf(i)) = 2
    /\ DailyResultsOf(i)[1].baseline.occupancy = Num(77)
    /\ DailyResultsOf(i)[1].simulated.revPAR = Rat(167706, 1000)

\* the stored market documents of the hotel that fall on the calendar day of a date and
\* carry events
StoredEventsOn(hotelId, date) ==
  {k \in 1..Len(marketStore) :
     /\ marketStore[k].hotelId = hotelId
     /\ marketStore[k].date \div TicksPerDay = date \div TicksPerDay
     /\ marketStore[k].events # <<>>}

\* C27: predictDemand fetches market records dated up to targetDate only, so for every
\* forecast day after the target date no market record matches and the day's
\* eventsImpact is exactly 1.0, whatever events are stored for that date; only day 0
\* can be affected by stored events.
C27_EventsOnlyOnDayZero ==
  \A i \in SlotIds :
    /\ \A k \in 2..Len(PredictionsOf(i)) :
         PredictionsOf(i)[k].factors.eventsImpact = Num(1)
    /\ (Settled(i, "predictDemand") /\ FetchesSucceeded(i)) =>
         /\ \A k \in 1..Len(WindowMarket(i)) : WindowMarket(i)[k].date <= slot[i].targetDate
         /\ slot[i].outcome.status = "threw" =>
              \E k \in StoredEventsOn(slot[i].hotelId, slot[i].targetDate) :
                marketStore[k].date <= slot[i].targetDate

\* predictDemand for Friday 8 March has returned three predictions while a "high"
\* event of the hotel is stored for 9 March: the prediction for 9 March has
\* eventsImpact 1.0
C27_Witness ==
  \E i \in SlotIds :
    /\ Returned(i, "predictDemand")
    /\ slot[i].targetDate = Fri8Mar
    /\ Len(PredictionsOf(i)) = 3
    /\ StoredEventsOn(slot[i].hotelId, PredictionsOf(i)[2].date) # {}
    /\ PredictionsOf(i)[2].factors.eventsImpact = Num(1)

\* ---- C25, C26: errors of a fetch and the controller's response ----

AwaitStages == {"await_revenue", "await_market", "await_hotel"}

\* the place of a stage in getRevenueData, getMarketData, Hotel.findById, settled
StageRank(pc) ==
  CASE pc = "await_revenue" -> 1
    [] pc = "await_market" -> 2
    [] pc = "await_hotel" -> 3
    [] pc = "done" -> 4
    [] OTHER -> 0

\* C25: when an operation leaves a fetch it never comes back to that fetch or to an earlier
\* one (each fetch is made at most once, nothing is retried), and when the fetch rejected,
\* the operation settles at once, rejecting with the very error of the fetch and with no
\* value, and the response carries no data.
C25_FetchErrorPropagates ==
  [][\A i \in SlotIds :
       (slot[i].pc \in AwaitStages /\ slot'[i].pc # slot[i].pc) =>
         /\ StageRank(slot'[i].pc) > StageRank(slot[i].pc)
         /\ slot'[i].raised # <<>> =>
              /\ slot'[i].pc = "done"
              /\ slot'[i].outcome =
                   [status |-> "threw", error |-> slot'[i].raised[1], value |-> <<>>]
              /\ slot'[i].response.data = <<>>]_vars

\* Hotel.findById of recommendPricing rejected after both fetches of predictDemand
\* succeeded on stored records, and the operation rejected with that error
C25_Witness ==
  /\ slot[1].op = "recommendPricing"
  /\ slot[1].pc = "done"
  /\ Len(revenueStore) > 0
  /\ slot[1].raised = <<"connection timed out">>
  /\ slot[1].outcome.status = "threw"
  /\ slot[1].outcome.error = "connection timed out"

\* C26 as stated: the response to an operation that raised carries the error's message
\* outside production only; in production it carries the generic message alone.
C26_MessageHiddenInProduction ==
  \A i \in SlotIds :
    (slot[i].pc = "done" /\ slot[i].outcome.status = "threw") =>
      /\ slot[i].response.message = "Internal server error"
      /\ slot[i].response.error =
           (IF processEnv.NODE_ENV = "production" THEN "" ELSE slot[i].outcome.error)

\* C26 amended: the response to an operation that raised is status 500 with success false,
\* the message 'Internal server error' and the error's message under error, whatever
\* NODE_ENV is, production included.
C26_MessageAlwaysReturned ==
  \A i \in SlotIds :
    (slot[i].pc = "done" /\ slot[i].outcome.status = "threw") =>
      slot[i].response =
        Reply(500, FALSE, "Internal server error", slot[i].outcome.error, <<>>)

\* in production recommendPricing raised 'Hotel not found' and the response names it
C26_Witness ==
  /\ processEnv.NODE_ENV = "production"
  /\ slot[1].op = "recommendPricing"
  /\ slot[1].pc = "done"
  /\ slot[1].outcome.status = "threw"
  /\ slot[1].outcome.error = "Hotel not found"
  /\ slot[1].response.error = "Hotel not found"

====
